---- MODULE Spec2Model ----
(***************************************************************************)
(* Evolution-with-NEAT: genome encoding (creature.js), connectivity        *)
(* analysis, crossover / mutation and the generational genetic algorithm   *)
(* (ga.js).                                                                *)
(*                                                                         *)
(* Gene objects live in a heap (a sequence of records); a genome holds     *)
(* references (heap indices), as the JavaScript arrays hold object         *)
(* references.  Operators that allocate or write objects take the heap and *)
(* return [h |-> new heap, r |-> result].                                  *)
(*                                                                         *)
(* Units: size, lengths in world units; delays and timestamps in           *)
(* milliseconds; friction and frictionStatic in tenths; stiffness in       *)
(* hundredths; probabilities in hundredths.                                *)
(***************************************************************************)
EXTENDS Integers, Sequences, FiniteSets, TLC

VARIABLES
    heap,        \* gene objects: NodeGenotype / MuscleGenotype instances
    bench,       \* genome workbench: references held by a caller of the genome API
    op,          \* the operation that produced this state, with its inputs
    ga           \* the GeneticAlgorithm instance

vars == <<heap, bench, op, ga>>

(***************************************************************************)
(* Bounds                                                                  *)
(***************************************************************************)
MaxNodes == 3          \* largest nNodes handed to CreatureGenome.createRandom
MaxMutations == 2      \* most genes whose draw falls below pMutate in one mutate() call
MaxOps == 2            \* most copy / crossover / mutate / promote steps on the workbench
MaxTicks == 4          \* the engine timestamps reach MaxTicks * 500 ms
MaxCalls == 3          \* most reset() / update() calls on one GeneticAlgorithm
MaxHits == 1           \* most mutation hits over one run of the genetic algorithm
MaxMoves == 1          \* most bodies the engine moves over one run
MaxPopulation == 4     \* largest population scored by a single evaluate() call
MaxFitness == 2        \* largest x coordinate of a body scored by that call

(***************************************************************************)
(* Program constants                                                       *)
(***************************************************************************)
Infinity == 1000000000
NodeGenotype_pMutate == 5
MuscleGenotype_pMutate == 5

NodeGenotype_randomConfig ==
    [size           |-> [mu |-> 20, sigma |-> 3, min |-> 10, max |-> Infinity],
     friction       |-> [mu |-> 7,  sigma |-> 1, min |-> 0,  max |-> 10],
     frictionStatic |-> [mu |-> 5,  sigma |-> 1, min |-> 0,  max |-> 10]]

MuscleGenotype_randomConfig ==
    [contractedLength |-> [mu |-> 60,   sigma |-> 5,   min |-> 1,   max |-> Infinity],
     extendedLength   |-> [mu |-> 80,   sigma |-> 5,   min |-> 1,   max |-> Infinity],
     contractDelay    |-> [mu |-> 1000, sigma |-> 100, min |-> 100, max |-> Infinity],
     extendDelay      |-> [mu |-> 1000, sigma |-> 100, min |-> 100, max |-> Infinity],
     stiffness        |-> [mu |-> 10,   sigma |-> 1,   min |-> 0,   max |-> 100]]

(***************************************************************************)
(* utils.js                                                                *)
(***************************************************************************)
MathMin(a, b) == IF a <= b THEN a ELSE b
MathMax(a, b) == IF a >= b THEN a ELSE b
MathAbs(a) == IF a < 0 THEN 0 - a ELSE a

\* n is the standard normal deviate produced by the Box-Muller transform.
randomGaussian(mu, sigma, n) == n * MathAbs(sigma) + mu

\* The values randomInt(min, max) can return: min inclusive, max exclusive.
randomInt(min, max) == min .. (max - 1)

clip(x, min, max) == MathMax(min, MathMin(x, max))

clippedRandomGaussian(options, n) ==
    clip(randomGaussian(options.mu, options.sigma, n), options.min, options.max)

\* const v = ...: F applied to the value of an expression its body uses more
\* than once.
Let(v, F(_)) == F(v)

\* Object.assign({}, a, b) for the two keys the callers override.
WithMu(options, mu) == [options EXCEPT !.mu = mu]
WithMuSigma(options, mu, sigma) == [options EXCEPT !.mu = mu, !.sigma = sigma]

(***************************************************************************)
(* NodeGenotype                                                            *)
(***************************************************************************)
\* new NodeGenotype(options): reads size, friction, frictionStatic only.
NodeGenotype_new(h, options) ==
    [h |-> Append(h, [size           |-> options.size,
                      friction       |-> options.friction,
                      frictionStatic |-> options.frictionStatic,
                      isEnabled      |-> TRUE]),
     r |-> Len(h) + 1]

\* d: the three gaussian deviates drawn.
NodeGenotype_createRandom(h, d) ==
    NodeGenotype_new(h,
        [size           |-> clippedRandomGaussian(NodeGenotype_randomConfig.size, d.size),
         friction       |-> clippedRandomGaussian(NodeGenotype_randomConfig.friction, d.friction),
         frictionStatic |-> clippedRandomGaussian(NodeGenotype_randomConfig.frictionStatic,
                                                  d.frictionStatic)])

\* Mutant: the copy is the gene object itself.
NodeGenotype_copy_shared(h, ref) == [h |-> h, r |-> ref]

NodeGenotype_copy(h, ref) == NodeGenotype_new(h, h[ref])

\* Mutant: a hit redraws the size and the friction.
NodeGenotype_mutate_twoFields(h, ref, d) ==
    IF d.p < NodeGenotype_pMutate
    THEN [h EXCEPT ![ref].size = clippedRandomGaussian(
                       WithMuSigma(NodeGenotype_randomConfig.size, h[ref].size, 1), d.n),
                   ![ref].friction = clippedRandomGaussian(
                       WithMu(NodeGenotype_randomConfig.friction, h[ref].friction), d.n)]
    ELSE h

\* d = [p, field, n]: the uniform draw p, the randomInt(0, 3) draw and the deviate.
NodeGenotype_mutate(h, ref, d) ==
    IF d.p < NodeGenotype_pMutate
    THEN CASE d.field = 0 ->
                [h EXCEPT ![ref].size = clippedRandomGaussian(
                    WithMuSigma(NodeGenotype_randomConfig.size, h[ref].size, 1), d.n)]
           [] d.field = 1 ->
                [h EXCEPT ![ref].friction = clippedRandomGaussian(
                    WithMu(NodeGenotype_randomConfig.friction, h[ref].friction), d.n)]
           [] d.field = 2 ->
                [h EXCEPT ![ref].frictionStatic = clippedRandomGaussian(
                    WithMu(NodeGenotype_randomConfig.frictionStatic, h[ref].frictionStatic), d.n)]
           [] OTHER -> h
    ELSE h

(***************************************************************************)
(* MuscleGenotype                                                          *)
(***************************************************************************)
MuscleGenotype_new(h, options) ==
    LET a == MathMin(options.bodyA, options.bodyB)
        b == MathMax(options.bodyB, options.bodyA)
    IN  [h |-> Append(h, [bodyA            |-> a,
                          bodyB            |-> b,
                          stiffness        |-> options.stiffness,
                          contractedLength |-> options.contractedLength,
                          extendedLength   |-> options.extendedLength,
                          contractDelay    |-> options.contractDelay,
                          extendDelay      |-> options.extendDelay,
                          isEnabled        |-> a # b]),
         r |-> Len(h) + 1]

\* d: the two randomInt(0, nNodes) draws and the five gaussian deviates.
MuscleGenotype_createRandom(h, d) ==
    MuscleGenotype_new(h,
        [bodyA            |-> d.bodyA,
         bodyB            |-> d.bodyB,
         stiffness        |-> clippedRandomGaussian(MuscleGenotype_randomConfig.stiffness,
                                                    d.stiffness),
         contractedLength |-> clippedRandomGaussian(MuscleGenotype_randomConfig.contractedLength,
                                                    d.contractedLength),
         extendedLength   |-> clippedRandomGaussian(MuscleGenotype_randomConfig.extendedLength,
                                                    d.extendedLength),
         contractDelay    |-> clippedRandomGaussian(MuscleGenotype_randomConfig.contractDelay,
                                                    d.contractDelay),
         extendDelay      |-> clippedRandomGaussian(MuscleGenotype_randomConfig.extendDelay,
                                                    d.extendDelay)])

MuscleGenotype_copy(h, ref) == MuscleGenotype_new(h, h[ref])

\* Mutant: isEnabled is not updated after the endpoints are redrawn.
MuscleGenotype_mutate_staleFlag(h, ref, d) ==
    IF d.p < MuscleGenotype_pMutate
    THEN LET m == h[ref]
             m1 == CASE d.field = 0 -> [m EXCEPT !.bodyA = d.body]
                     [] d.field = 1 -> [m EXCEPT !.bodyB = d.body]
                     [] OTHER -> m
         IN  [h EXCEPT ![ref] = IF m1.bodyA > m1.bodyB
                                THEN [m1 EXCEPT !.bodyA = m1.bodyB, !.bodyB = m1.bodyA]
                                ELSE m1]
    ELSE h

\* d = [p, field, body, n]: the uniform draw p, the randomInt(0, 7) draw, the
\* randomInt(0, nNodes) draw (fields 0, 1) and the deviate (fields 2..6).
MuscleGenotype_mutate(h, ref, d) ==
    IF d.p < MuscleGenotype_pMutate
    THEN LET m == h[ref]
             cfg == MuscleGenotype_randomConfig
             m1 == CASE d.field = 0 -> [m EXCEPT !.bodyA = d.body]
                     [] d.field = 1 -> [m EXCEPT !.bodyB = d.body]
                     [] d.field = 2 -> [m EXCEPT !.contractedLength = clippedRandomGaussian(
                            WithMuSigma(cfg.contractedLength, m.contractedLength, 1), d.n)]
                     [] d.field = 3 -> [m EXCEPT !.extendedLength = clippedRandomGaussian(
                            WithMuSigma(cfg.extendedLength, m.extendedLength, 1), d.n)]
                     [] d.field = 4 -> [m EXCEPT !.stiffness = clippedRandomGaussian(
                            WithMuSigma(cfg.stiffness, m.stiffness, 100), d.n)]
                     [] d.field = 5 -> [m EXCEPT !.contractDelay = clippedRandomGaussian(
                            WithMuSigma(cfg.contractDelay, m.contractDelay, 1), d.n)]
                     [] d.field = 6 -> [m EXCEPT !.extendDelay = clippedRandomGaussian(
                            WithMuSigma(cfg.extendDelay, m.extendDelay, 1), d.n)]
                     [] OTHER -> m
             \* Enforce the sorted property of the body IDs.
             m2 == IF m1.bodyA > m1.bodyB
                   THEN [m1 EXCEPT !.bodyA = m1.bodyB, !.bodyB = m1.bodyA]
                   ELSE m1
         IN  [h EXCEPT ![ref] = [m2 EXCEPT !.isEnabled = (m2.bodyA # m2.bodyB)]]
    ELSE h

(***************************************************************************)
(* CreatureGenome                                                          *)
(* A genome is [nodeGenotypes, muscleGenotypes]: two arrays of references. *)
(* Node indices are 0-based as in the source; array position i is i + 1.   *)
(***************************************************************************)
NoGenome == [nodeGenotypes |-> <<>>, muscleGenotypes |-> <<>>]

\* Two-way adjacency list over the muscles whose isEnabled flag is set.
RECURSIVE addEdges(_, _, _, _)
addEdges(h, muscles, k, nodeIndex) ==
    IF k > Len(muscles) THEN nodeIndex
    ELSE LET m == h[muscles[k]]
             n1 == [nodeIndex EXCEPT ![m.bodyA] = Append(@, m.bodyB)]
             n2 == [n1 EXCEPT ![m.bodyB] = Append(@, m.bodyA)]
         IN  addEdges(h, muscles, k + 1, IF m.isEnabled THEN n2 ELSE nodeIndex)

\* Recursive depth-first search helper; s = [visited, group].
RECURSIVE dfs(_, _, _)
RECURSIVE dfsAdjacent(_, _, _, _)
dfs(current, nodeIndex, s) ==
    IF current \in s.visited THEN s
    ELSE dfsAdjacent(nodeIndex[current], 1, nodeIndex,
                     [visited |-> s.visited \cup {current},
                      group   |-> s.group \cup {current}])
dfsAdjacent(adjacent, k, nodeIndex, s) ==
    IF k > Len(adjacent) THEN s
    ELSE dfsAdjacent(adjacent, k + 1, nodeIndex, dfs(adjacent[k], nodeIndex, s))

\* One group per node not yet visited, in ascending index order.
RECURSIVE findGroups(_, _, _, _, _)
findGroups(i, n, nodeIndex, visitedNodes, groups) ==
    IF i >= n THEN groups
    ELSE IF i \in visitedNodes
         THEN findGroups(i + 1, n, nodeIndex, visitedNodes, groups)
         ELSE LET s == dfs(i, nodeIndex, [visited |-> visitedNodes, group |-> {}])
              IN  findGroups(i + 1, n, nodeIndex, s.visited, Append(groups, s.group))

\* A JavaScript number or NaN.
Num(v) == [nan |-> FALSE, v |-> v]
NaN == [nan |-> TRUE, v |-> 0]
Minus(x, y) == IF x.nan \/ y.nan THEN NaN ELSE Num(x.v - y.v)

\* group.length: a group is a Set, which has `size` but no `length`
\* property, so the read yields undefined, which arithmetic turns into NaN.
groupLength(group) == NaN

\* (a, b) => b.length - a.length
compareGroups(a, b) == Minus(groupLength(b), groupLength(a))

\* Array.prototype.sort: a comparator result of NaN is taken as +0; the sort
\* is stable.
sortCompare(a, b) == LET v == compareGroups(a, b) IN IF v.nan THEN 0 ELSE v.v

RECURSIVE insertGroup(_, _, _)
insertGroup(sorted, k, x) ==
    IF k > Len(sorted) THEN Append(sorted, x)
    ELSE IF sortCompare(sorted[k], x) > 0
         THEN SubSeq(sorted, 1, k - 1) \o <<x>> \o SubSeq(sorted, k, Len(sorted))
         ELSE insertGroup(sorted, k + 1, x)

RECURSIVE sortGroups(_, _, _)
sortGroups(groups, k, sorted) ==
    IF k > Len(groups) THEN sorted
    ELSE sortGroups(groups, k + 1, insertGroup(sorted, 1, groups[k]))

\* The groups of a genome as _checkActive leaves them after its sort.
genomeGroups(h, g) ==
    LET n == Len(g.nodeGenotypes)
        nodeIndex == addEdges(h, g.muscleGenotypes, 1, [i \in 0 .. n - 1 |-> <<>>])
    IN  sortGroups(findGroups(0, n, nodeIndex, {}, <<>>), 1, <<>>)

\* Mutant: the nodes of the primary group are disabled as well.
writeFlags_noneEnabled(h, g, primaryGroup) ==
    [ref \in 1 .. Len(h) |->
        IF \E k \in 1 .. Len(g.nodeGenotypes) : g.nodeGenotypes[k] = ref
        THEN [h[ref] EXCEPT !.isEnabled = FALSE]
        ELSE IF /\ \E k \in 1 .. Len(g.muscleGenotypes) : g.muscleGenotypes[k] = ref
                /\ (h[ref].bodyA \notin primaryGroup \/ h[ref].bodyB \notin primaryGroup)
             THEN [h[ref] EXCEPT !.isEnabled = FALSE]
             ELSE h[ref]]

\* The flags _checkActive writes for primaryGroup: a node object is written
\* true for an index in the primary group and afterwards false for an index
\* in a secondary group; a muscle with an endpoint outside the primary group
\* is disabled.
writeFlags(h, g, primaryGroup) ==
    [ref \in 1 .. Len(h) |->
        IF \E k \in 1 .. Len(g.nodeGenotypes) : g.nodeGenotypes[k] = ref
        THEN [h[ref] EXCEPT !.isEnabled =
                 \A k \in 1 .. Len(g.nodeGenotypes) :
                     g.nodeGenotypes[k] = ref => (k - 1) \in primaryGroup]
        ELSE IF /\ \E k \in 1 .. Len(g.muscleGenotypes) : g.muscleGenotypes[k] = ref
                /\ (h[ref].bodyA \notin primaryGroup \/ h[ref].bodyB \notin primaryGroup)
             THEN [h[ref] EXCEPT !.isEnabled = FALSE]
             ELSE h[ref]]

\* CreatureGenome._checkActive: the heap after the flags are written.
checkActive(h, g) == writeFlags(h, g, genomeGroups(h, g)[1])

\* new CreatureGenome(nodeGenotypes, muscleGenotypes)
CreatureGenome_new(h, nodeGenotypes, muscleGenotypes) ==
    [h |-> checkActive(h, [nodeGenotypes |-> nodeGenotypes, muscleGenotypes |-> muscleGenotypes]),
     r |-> [nodeGenotypes |-> nodeGenotypes, muscleGenotypes |-> muscleGenotypes]]

\* Mutant: the muscles keep the endpoints MuscleGenotype.createRandom drew.
RECURSIVE createRandomLoop_drawn(_, _, _, _, _, _)
createRandomLoop_drawn(h, i, nNodes, draws, nodeGenotypes, muscleGenotypes) ==
    IF i >= nNodes THEN CreatureGenome_new(h, nodeGenotypes, muscleGenotypes)
    ELSE Let(NodeGenotype_createRandom(h, draws[i + 1].node), LAMBDA n :
         Let(MuscleGenotype_createRandom(n.h, draws[i + 1].muscle), LAMBDA m :
             createRandomLoop_drawn(m.h, i + 1, nNodes, draws,
                                    Append(nodeGenotypes, n.r), Append(muscleGenotypes, m.r))))

\* CreatureGenome.createRandom(nNodes); draws[i + 1] = [node, muscle] holds the
\* random draws of iteration i.
RECURSIVE createRandomLoop(_, _, _, _, _, _)
createRandomLoop(h, i, nNodes, draws, nodeGenotypes, muscleGenotypes) ==
    IF i >= nNodes THEN CreatureGenome_new(h, nodeGenotypes, muscleGenotypes)
    ELSE Let(NodeGenotype_createRandom(h, draws[i + 1].node), LAMBDA n :
         Let(MuscleGenotype_createRandom(n.h, draws[i + 1].muscle), LAMBDA m :
             createRandomLoop([m.h EXCEPT ![m.r].bodyA = i, ![m.r].bodyB = (i + 1) % nNodes],
                              i + 1, nNodes, draws,
                              Append(nodeGenotypes, n.r), Append(muscleGenotypes, m.r))))

CreatureGenome_createRandom(h, nNodes, draws) ==
    createRandomLoop(h, 0, nNodes, draws, <<>>, <<>>)

\* CreatureGenome.copy()
RECURSIVE copyLoop(_, _, _, _, _)
copyLoop(h, g, i, nodeGenotypes, muscleGenotypes) ==
    IF i >= Len(g.nodeGenotypes) THEN CreatureGenome_new(h, nodeGenotypes, muscleGenotypes)
    ELSE Let(NodeGenotype_copy(h, g.nodeGenotypes[i + 1]), LAMBDA n :
         Let(MuscleGenotype_copy(n.h, g.muscleGenotypes[i + 1]), LAMBDA m :
             copyLoop(m.h, g, i + 1, Append(nodeGenotypes, n.r), Append(muscleGenotypes, m.r))))

CreatureGenome_copy(h, g) == copyLoop(h, g, 0, <<>>, <<>>)

\* Mutant: the gene at the crossover point is taken from self as well.
RECURSIVE crossoverLoop_inclusive(_, _, _, _, _, _, _)
crossoverLoop_inclusive(h, self, other, crossoverPoint, i, nodeGenotypes, muscleGenotypes) ==
    IF i >= Len(self.nodeGenotypes)
    THEN [h |-> h, r |-> [nodeGenotypes |-> nodeGenotypes, muscleGenotypes |-> muscleGenotypes]]
    ELSE Let(IF i <= crossoverPoint THEN self ELSE other, LAMBDA from :
         Let(NodeGenotype_copy(h, from.nodeGenotypes[i + 1]), LAMBDA n :
         Let(MuscleGenotype_copy(n.h, from.muscleGenotypes[i + 1]), LAMBDA m :
             crossoverLoop_inclusive(m.h, self, other, crossoverPoint, i + 1,
                                     Append(nodeGenotypes, n.r), Append(muscleGenotypes, m.r)))))

\* The loop of CreatureGenome.crossover(other) with the drawn crossoverPoint:
\* the copied genes, as the two lists handed to the constructor.
RECURSIVE crossoverLoop(_, _, _, _, _, _, _)
crossoverLoop(h, self, other, crossoverPoint, i, nodeGenotypes, muscleGenotypes) ==
    IF i >= Len(self.nodeGenotypes)
    THEN [h |-> h, r |-> [nodeGenotypes |-> nodeGenotypes, muscleGenotypes |-> muscleGenotypes]]
    ELSE Let(IF i < crossoverPoint THEN self ELSE other, LAMBDA from :
         Let(NodeGenotype_copy(h, from.nodeGenotypes[i + 1]), LAMBDA n :
         Let(MuscleGenotype_copy(n.h, from.muscleGenotypes[i + 1]), LAMBDA m :
             crossoverLoop(m.h, self, other, crossoverPoint, i + 1,
                           Append(nodeGenotypes, n.r), Append(muscleGenotypes, m.r)))))

CreatureGenome_crossover(h, self, other, crossoverPoint) ==
    Let(crossoverLoop(h, self, other, crossoverPoint, 0, <<>>, <<>>), LAMBDA copied :
        CreatureGenome_new(copied.h, copied.r.nodeGenotypes, copied.r.muscleGenotypes))

\* TypeError in the loop of crossover(): the genome a gene is taken from has
\* no gene at index i, so that .copy() is called on undefined.
crossoverMissingGene(self, other, crossoverPoint) ==
    \E i \in 0 .. Len(self.nodeGenotypes) - 1 :
        IF i < crossoverPoint
        THEN i >= Len(self.muscleGenotypes)
        ELSE i >= Len(other.nodeGenotypes) \/ i >= Len(other.muscleGenotypes)

\* TypeError in _checkActive: an enabled muscle has an endpoint that is no
\* key of nodeIndex, so that .push is called on undefined; with no node at
\* all primaryGroup is undefined and cannot be iterated.
checkActiveThrows(h, g) ==
    \/ Len(g.nodeGenotypes) = 0
    \/ \E k \in 1 .. Len(g.muscleGenotypes) :
          /\ h[g.muscleGenotypes[k]].isEnabled
          /\ \/ h[g.muscleGenotypes[k]].bodyA \notin 0 .. Len(g.nodeGenotypes) - 1
             \/ h[g.muscleGenotypes[k]].bodyB \notin 0 .. Len(g.nodeGenotypes) - 1

\* crossover() raises a TypeError and returns no genome.
crossoverThrows(h, self, other, crossoverPoint) ==
    \/ crossoverMissingGene(self, other, crossoverPoint)
    \/ Let(crossoverLoop(h, self, other, crossoverPoint, 0, <<>>, <<>>), LAMBDA copied :
           checkActiveThrows(copied.h, copied.r))

\* CreatureGenome.mutate(): every node gene, then every muscle gene, in place.
\* d = [nodes, muscles]: one draw record per gene.
RECURSIVE mutateNodes(_, _, _, _)
mutateNodes(h, g, d, k) ==
    IF k > Len(g.nodeGenotypes) THEN h
    ELSE mutateNodes(NodeGenotype_mutate(h, g.nodeGenotypes[k], d.nodes[k]), g, d, k + 1)

RECURSIVE mutateMuscles(_, _, _, _)
mutateMuscles(h, g, d, k) ==
    IF k > Len(g.muscleGenotypes) THEN h
    ELSE mutateMuscles(MuscleGenotype_mutate(h, g.muscleGenotypes[k], d.muscles[k]), g, d, k + 1)

CreatureGenome_mutate(h, g, d) == mutateMuscles(mutateNodes(h, g, d, 1), g, d, 1)

\* CreatureGenome.breed(creatureGenome1, creatureGenome2)
CreatureGenome_breed(h, creatureGenome1, creatureGenome2, crossoverPoint, d) ==
    Let(CreatureGenome_crossover(h, creatureGenome1, creatureGenome2, crossoverPoint),
        LAMBDA childGenome :
            [h |-> CreatureGenome_mutate(childGenome.h, childGenome.r, d), r |-> childGenome.r])

(***************************************************************************)
(* Heap housekeeping: objects no reference reaches are dropped and the     *)
(* remaining ones renumbered in order of first reference (garbage          *)
(* collection; object identity is preserved).                              *)
(***************************************************************************)
RECURSIVE genomeRefs(_, _)
genomeRefs(genomes, k) ==
    IF k > Len(genomes) THEN <<>>
    ELSE genomes[k].nodeGenotypes \o genomes[k].muscleGenotypes \o genomeRefs(genomes, k + 1)

RECURSIVE uniqueRefs(_, _, _)
uniqueRefs(refs, k, acc) ==
    IF k > Len(refs) THEN acc
    ELSE uniqueRefs(refs, k + 1,
                    IF \E j \in 1 .. Len(acc) : acc[j] = refs[k] THEN acc ELSE Append(acc, refs[k]))

liveRefs(genomes) == uniqueRefs(genomeRefs(genomes, 1), 1, <<>>)

newRef(live, ref) == CHOOSE j \in 1 .. Len(live) : live[j] = ref

renumber(live, g) ==
    [nodeGenotypes   |-> [k \in 1 .. Len(g.nodeGenotypes) |-> newRef(live, g.nodeGenotypes[k])],
     muscleGenotypes |-> [k \in 1 .. Len(g.muscleGenotypes) |->
                            newRef(live, g.muscleGenotypes[k])]]

\* The gene values a genome reference currently denotes.
genes(h, g) ==
    [nodeGenotypes   |-> [k \in 1 .. Len(g.nodeGenotypes) |-> h[g.nodeGenotypes[k]]],
     muscleGenotypes |-> [k \in 1 .. Len(g.muscleGenotypes) |-> h[g.muscleGenotypes[k]]]]

(***************************************************************************)
(* Random draws explored                                                   *)
(***************************************************************************)
\* Standard normal deviates drawn while mutating.
MutateDeviates == {1}

\* The draws of one createRandom loop iteration: deviate z for the gaussian
\* draws, a and b for the endpoint draws of MuscleGenotype.createRandom.
createDraw(z, a, b) ==
    [node   |-> [size |-> z, friction |-> z, frictionStatic |-> z],
     muscle |-> [bodyA |-> a, bodyB |-> b, stiffness |-> z, contractedLength |-> z,
                 extendedLength |-> z, contractDelay |-> z, extendDelay |-> z]]

\* The draws of one createRandom(nNodes) call explored: every gaussian draw
\* of the call yields deviate z, every muscle draws the same two endpoints.
genomeCreateDraws(nNodes, z) ==
    {[i \in 1 .. nNodes |-> createDraw(z, a, b)] :
        a \in {x \in randomInt(0, nNodes) : x = 0},
        b \in {x \in randomInt(0, nNodes) : x <= 1}}

\* Draws of Math.random() above and below pMutate, in hundredths.
nodeMiss == [p |-> 50, field |-> 0, n |-> 0]
muscleMiss == [p |-> 50, field |-> 0, body |-> 0, n |-> 0]

nodeHits == {[p |-> 0, field |-> f, n |-> z] : f \in randomInt(0, 3), z \in MutateDeviates}

muscleHits(nNodes) ==
    {[p |-> 0, field |-> f, body |-> b, n |-> 0] : f \in {0, 1}, b \in randomInt(0, nNodes)}
    \cup {[p |-> 0, field |-> f, body |-> 0, n |-> z] : f \in 2 .. 6, z \in MutateDeviates}

\* The draws of one CreatureGenome.mutate() call on a genome of nNodes node
\* and nNodes muscle genes in which at most maxHits uniform draws fall below
\* pMutate.  Genes 1 .. nNodes are the nodes, nNodes + 1 .. 2 nNodes the muscles.
mutateDraws(nNodes, maxHits) ==
    LET positions == 1 .. 2 * nNodes
        hitSets == {S \in SUBSET positions : Cardinality(S) <= maxHits}
        choices(S) == {f \in [S -> nodeHits \cup muscleHits(nNodes)] :
                          \A i \in S : IF i <= nNodes THEN f[i] \in nodeHits
                                       ELSE f[i] \in muscleHits(nNodes)}
    IN  UNION {{[nodes   |-> [k \in 1 .. nNodes |-> IF k \in S THEN f[k] ELSE nodeMiss],
                 muscles |-> [k \in 1 .. nNodes |->
                                IF (nNodes + k) \in S THEN f[nNodes + k] ELSE muscleMiss]] :
                f \in choices(S)} : S \in hitSets}

(***************************************************************************)
(* MuscleConstraint (muscle.js) and the phenotypes                         *)
(***************************************************************************)
\* a || b on numbers: b when a is 0 (or NaN), a otherwise.
OrDefault(a, b) == IF a = 0 THEN b ELSE a

\* The value of nodes[k] for an index past the end of the array.
undefined == -1

\* MuscleConstraint.create(options)
MuscleConstraint_create(options) ==
    [bodyA            |-> options.bodyA,
     bodyB            |-> options.bodyB,
     stiffness        |-> options.stiffness,
     contractedLength |-> OrDefault(options.contractedLength, 1),
     extendedLength   |-> OrDefault(options.extendedLength, 2),
     length           |-> OrDefault(options.contractedLength, 1),
     isExtended       |-> FALSE]

\* MuscleConstraint.contract(muscle)
MuscleConstraint_contract(muscle) ==
    [muscle EXCEPT !.length = IF muscle.isExtended THEN muscle.contractedLength
                              ELSE muscle.extendedLength,
                   !.isExtended = ~muscle.isExtended]

\* NodeGenotype.getPhenotype(nodeGenotype, x, y): a circle body; only the x
\* coordinate of its position is kept.
NodeGenotype_getPhenotype(nodeGenotype, x) ==
    [position |-> x, circleRadius |-> nodeGenotype.size, friction |-> nodeGenotype.friction]

\* MuscleGenotype.getPhenotype(muscleGenotype, bodyA, bodyB); a body is named
\* by its index in the creature's nodes array.
MuscleGenotype_getPhenotype(muscleGenotype, bodyA, bodyB) ==
    Let(MuscleConstraint_create(
            [bodyA            |-> bodyA,
             bodyB            |-> bodyB,
             contractedLength |-> muscleGenotype.contractedLength,
             extendedLength   |-> muscleGenotype.extendedLength,
             stiffness        |-> muscleGenotype.stiffness]),
        LAMBDA constraint :
            [bodyA            |-> constraint.bodyA,
             bodyB            |-> constraint.bodyB,
             stiffness        |-> constraint.stiffness,
             contractedLength |-> constraint.contractedLength,
             extendedLength   |-> constraint.extendedLength,
             length           |-> constraint.length,
             isExtended       |-> constraint.isExtended,
             contractDelay    |-> muscleGenotype.contractDelay,
             extendDelay      |-> muscleGenotype.extendDelay])

(***************************************************************************)
(* Creature                                                                *)
(***************************************************************************)
\* Math.cos(i * Math.PI / n) * 40 rounded to an integer, for n up to 4.
circleX(i, n) == <<<<40>>, <<40, 0>>, <<40, 20, -20>>, <<40, 28, 0, -28>>>>[n][i + 1]

RECURSIVE filterEnabled(_, _, _)
filterEnabled(h, refs, k) ==
    IF k > Len(refs) THEN <<>>
    ELSE (IF h[refs[k]].isEnabled THEN <<refs[k]>> ELSE <<>>) \o filterEnabled(h, refs, k + 1)

\* this.nodes[index]
nodeAt(nodes, index) == IF index < Len(nodes) THEN index ELSE undefined

\* The first loop of the Creature constructor: the bodies of the enabled nodes.
creatureNodes(h, genome, nodeRefs, x) ==
    [i \in 1 .. Len(nodeRefs) |->
        NodeGenotype_getPhenotype(h[nodeRefs[i]],
                                  circleX(i - 1, Len(genome.nodeGenotypes)) + x)]

\* The second loop: the constraints of the enabled muscles.
creatureMuscles(h, muscleRefs, nodes) ==
    [k \in 1 .. Len(muscleRefs) |->
        MuscleGenotype_getPhenotype(h[muscleRefs[k]],
                                    nodeAt(nodes, h[muscleRefs[k]].bodyA),
                                    nodeAt(nodes, h[muscleRefs[k]].bodyB))]

\* new Creature(genome, x, y)
Creature_new(h, genome, x) ==
    Let(creatureNodes(h, genome, filterEnabled(h, genome.nodeGenotypes, 1), x), LAMBDA nodes :
    Let(creatureMuscles(h, filterEnabled(h, genome.muscleGenotypes, 1), nodes), LAMBDA muscles :
        [nodes             |-> nodes,
         muscles           |-> muscles,
         muscleLastUpdates |-> [k \in 1 .. Len(muscles) |-> 0]]))

\* creature.phenome: the handles of the bodies and constraints of creature id.
Creature_phenome(creature, id) ==
    [k \in 1 .. Len(creature.nodes) |-> [kind |-> "node", creature |-> id, k |-> k]]
    \o [k \in 1 .. Len(creature.muscles) |-> [kind |-> "muscle", creature |-> id, k |-> k]]

RECURSIVE getDisplacementLoop(_, _, _)
getDisplacementLoop(nodes, k, x) ==
    IF k > Len(nodes) THEN x
    ELSE getDisplacementLoop(nodes, k + 1, IF nodes[k].position > x THEN nodes[k].position ELSE x)

\* creature.getDisplacement()
Creature_getDisplacement(creature) == getDisplacementLoop(creature.nodes, 1, 0 - Infinity)

\* Mutant: the sign of the delays is not tested.
Creature_update_anyDelay(creature, timestamp) ==
    LET toggles(i) ==
            LET m == creature.muscles[i]
                shouldContract == m.isExtended
                                  /\ timestamp - creature.muscleLastUpdates[i] >= m.contractDelay
                shouldExtend == ~m.isExtended
                                /\ timestamp - creature.muscleLastUpdates[i] >= m.extendDelay
            IN  shouldContract \/ shouldExtend
    IN  [creature EXCEPT
            !.muscles = [i \in 1 .. Len(creature.muscles) |->
                           IF toggles(i) THEN MuscleConstraint_contract(creature.muscles[i])
                           ELSE creature.muscles[i]],
            !.muscleLastUpdates = [i \in 1 .. Len(creature.muscles) |->
                                     IF toggles(i) THEN timestamp
                                     ELSE creature.muscleLastUpdates[i]]]

\* creature.update(timestamp)
Creature_update(creature, timestamp) ==
    LET toggles(i) ==
            LET m == creature.muscles[i]
                shouldContract == (m.isExtended /\ m.contractDelay >= 0)
                                  /\ timestamp - creature.muscleLastUpdates[i] >= m.contractDelay
                shouldExtend == (~m.isExtended /\ m.extendDelay >= 0)
                                /\ timestamp - creature.muscleLastUpdates[i] >= m.extendDelay
            IN  shouldContract \/ shouldExtend
    IN  [creature EXCEPT
            !.muscles = [i \in 1 .. Len(creature.muscles) |->
                           IF toggles(i) THEN MuscleConstraint_contract(creature.muscles[i])
                           ELSE creature.muscles[i]],
            !.muscleLastUpdates = [i \in 1 .. Len(creature.muscles) |->
                                     IF toggles(i) THEN timestamp
                                     ELSE creature.muscleLastUpdates[i]]]

(***************************************************************************)
(* GeneticAlgorithm (ga.js).  populationSize is a positive integer;        *)
(* elitismRatio and tournamentSize are kept in tenths, so that a fraction  *)
(* of the population can be supplied.                                      *)
(***************************************************************************)
\* A JavaScript quotient num / den; 0 / 0 is NaN.
Ratio(num, den) == [nan |-> (den = 0), num |-> IF den = 0 THEN 0 ELSE num,
                    den |-> IF den = 0 THEN 1 ELSE den]

defaults ==
    [populationSize          |-> 100,
     evaluationTime          |-> 60000,
     elitismRatio            |-> 10 * 10,
     tournamentSize          |-> 10 * 10,
     startingPosition        |-> 0,
     maxGenotypesPerCreature |-> 3,
     onGenerationStart       |-> "null",
     onGenerationEnd         |-> "null"]

\* 0 <= v < 1 is (0 <= v) < 1: the comparison result converts to 1 or 0.
chainedCompare(v) == (IF 0 <= v THEN 1 ELSE 0) < 1

\* The resolution of elitismRatio and of tournamentSize, in tenths.
resolveCount(populationSize, v) ==
    IF chainedCompare(v)
    THEN ((populationSize * v) \div 10) * 10
    ELSE MathMin(populationSize * 10, v)

initialResults ==
    [minFitness  |-> 0,
     meanFitness |-> Ratio(0, 1),
     maxFitness  |-> 0,
     sumFitness  |-> 0,
     argmin      |-> -1,
     argmax      |-> -1,
     fitness     |-> <<>>,
     topN        |-> <<>>]

\* new GeneticAlgorithm(world, options), options already merged with defaults.
GeneticAlgorithm_new(world, options) ==
    [world                   |-> world,
     population              |-> <<>>,
     populationSize          |-> options.populationSize,
     elitismRatio            |-> resolveCount(options.populationSize, options.elitismRatio),
     tournamentSize          |-> resolveCount(options.populationSize, options.tournamentSize),
     creatures               |-> <<>>,
     maxGenotypesPerCreature |-> options.maxGenotypesPerCreature,
     evaluationTime          |-> options.evaluationTime,
     currEvaluationStartTime |-> 0,
     generation              |-> 0,
     timeStep                |-> 0,
     generationResults       |-> initialResults,
     startingPosition        |-> options.startingPosition,
     onGenerationStart       |-> options.onGenerationStart,
     onGenerationEnd         |-> options.onGenerationEnd]

\* The while loop of updateTopN: the first spot j whose entry has a fitness
\* below fitnessScores[i].
RECURSIVE topNScan(_, _, _, _)
topNScan(topN, i, fitnessScores, j) ==
    IF j < Len(topN) /\ fitnessScores[i + 1] <= fitnessScores[topN[j + 1] + 1]
    THEN topNScan(topN, i, fitnessScores, j + 1)
    ELSE j

\* topN.splice(j, 0, i)
splice(topN, j, i) == SubSeq(topN, 1, j) \o <<i>> \o SubSeq(topN, j + 1, Len(topN))

\* Mutant: on overflow the first entry is dropped instead of the last one.
updateTopN_shift(elitismRatio, topN, i, fitnessScores) ==
    IF Len(topN) = 0 THEN <<i>>
    ELSE IF fitnessScores[i + 1] < fitnessScores[topN[Len(topN)] + 1]
         THEN IF Len(topN) * 10 < elitismRatio THEN Append(topN, i) ELSE topN
         ELSE Let(splice(topN, topNScan(topN, i, fitnessScores, 0), i), LAMBDA spliced :
                  IF Len(spliced) * 10 > elitismRatio
                  THEN SubSeq(spliced, 2, Len(spliced))
                  ELSE spliced)

\* updateTopN(topN, i, fitnessScores): the list after the call.
updateTopN(elitismRatio, topN, i, fitnessScores) ==
    IF Len(topN) = 0 THEN <<i>>
    ELSE IF fitnessScores[i + 1] < fitnessScores[topN[Len(topN)] + 1]
         THEN IF Len(topN) * 10 < elitismRatio THEN Append(topN, i) ELSE topN
         ELSE Let(splice(topN, topNScan(topN, i, fitnessScores, 0), i), LAMBDA spliced :
                  IF Len(spliced) * 10 > elitismRatio
                  THEN SubSeq(spliced, 1, Len(spliced) - 1)
                  ELSE spliced)

\* Number.prototype.toString for an integer, as character codes: the digits
\* as themselves, '-' as -1 (it sorts before every digit).
RECURSIVE digits(_)
digits(n) == IF n < 10 THEN <<n>> ELSE Append(digits(n \div 10), n % 10)

toString(n) == IF n < 0 THEN <<-1>> \o digits(0 - n) ELSE digits(n)

\* String comparison by code units.
RECURSIVE stringLess(_, _, _)
stringLess(a, b, k) ==
    IF k > Len(b) THEN FALSE
    ELSE IF k > Len(a) THEN TRUE
    ELSE IF a[k] # b[k] THEN a[k] < b[k]
    ELSE stringLess(a, b, k + 1)

\* Array.prototype.sort() without a comparator: ascending by the elements'
\* string conversions, stable.
RECURSIVE defaultSortInsert(_, _, _)
defaultSortInsert(sorted, k, x) ==
    IF k > Len(sorted) THEN Append(sorted, x)
    ELSE IF stringLess(toString(x), toString(sorted[k]), 1)
         THEN SubSeq(sorted, 1, k - 1) \o <<x>> \o SubSeq(sorted, k, Len(sorted))
         ELSE defaultSortInsert(sorted, k + 1, x)

RECURSIVE defaultSort(_, _, _)
defaultSort(array, k, sorted) ==
    IF k > Len(array) THEN sorted
    ELSE defaultSort(array, k + 1, defaultSortInsert(sorted, 1, array[k]))

\* The median evaluate() computes from the sorted copy.
medianOf(sorted) ==
    IF Len(sorted) % 2 = 0
    THEN IF Len(sorted) = 0 THEN Ratio(0, 0)
         ELSE Ratio(sorted[Len(sorted) \div 2] + sorted[Len(sorted) \div 2 + 1], 2)
    ELSE Ratio(sorted[Len(sorted) \div 2 + 1], 1)

\* Mutant: a fitness equal to the minimum so far moves argmin.
score_lastMinimum(g, i, acc, fitness) ==
    [fitnessScores |-> Append(acc.fitnessScores, fitness),
     sum           |-> acc.sum + fitness,
     minFitness    |-> IF fitness <= acc.minFitness THEN fitness ELSE acc.minFitness,
     argmin        |-> IF fitness <= acc.minFitness THEN i ELSE acc.argmin,
     maxFitness    |-> IF fitness > acc.maxFitness THEN fitness ELSE acc.maxFitness,
     argmax        |-> IF fitness > acc.maxFitness THEN i ELSE acc.argmax,
     topN          |-> updateTopN(g.elitismRatio, acc.topN, i,
                                  Append(acc.fitnessScores, fitness))]

\* One iteration of the scoring loop of evaluate() for creature i with its fitness.
score(g, i, acc, fitness) ==
    [fitnessScores |-> Append(acc.fitnessScores, fitness),
     sum           |-> acc.sum + fitness,
     minFitness    |-> IF fitness < acc.minFitness THEN fitness ELSE acc.minFitness,
     argmin        |-> IF fitness < acc.minFitness THEN i ELSE acc.argmin,
     maxFitness    |-> IF fitness > acc.maxFitness THEN fitness ELSE acc.maxFitness,
     argmax        |-> IF fitness > acc.maxFitness THEN i ELSE acc.argmax,
     topN          |-> updateTopN(g.elitismRatio, acc.topN, i,
                                  Append(acc.fitnessScores, fitness))]

\* The scoring loop of evaluate().
RECURSIVE evaluateLoop(_, _, _)
evaluateLoop(g, i, acc) ==
    IF i >= Len(g.creatures) THEN acc
    ELSE evaluateLoop(g, i + 1, score(g, i, acc, Creature_getDisplacement(g.creatures[i + 1])))

\* The dictionary evaluate() builds from the loop's variables.
resultsOf(g, acc) ==
    [threw   |-> (acc.argmin = -1),
     results |-> [minFitness    |-> acc.minFitness,
                  meanFitness   |-> Ratio(acc.sum, Len(g.creatures)),
                  medianFitness |-> medianOf(defaultSort(acc.fitnessScores, 1, <<>>)),
                  maxFitness    |-> acc.maxFitness,
                  sumFitness    |-> acc.sum,
                  argmin        |-> acc.argmin,
                  argmax        |-> acc.argmax,
                  fitness       |-> acc.fitnessScores,
                  topN          |-> acc.topN]]

\* evaluate(): the dictionary returned, or the TypeError of
\* fitness[argmin].toFixed when there is no creature (argmin = -1).
GeneticAlgorithm_evaluate(g) ==
    resultsOf(g, evaluateLoop(g, 0,
                     [fitnessScores |-> <<>>, sum |-> 0,
                      minFitness |-> Infinity, argmin |-> -1,
                      maxFitness |-> 0 - Infinity, argmax |-> -1, topN |-> <<>>]))

\* generationResults.fitness[i]: undefined (NaN in a comparison) past the end.
fitnessAt(g, i) ==
    IF i < Len(g.generationResults.fitness) THEN Num(g.generationResults.fitness[i + 1])
    ELSE NaN

greaterThan(a, b) == ~a.nan /\ ~b.nan /\ a.v > b.v

\* select() with draws[1] the first randomInt draw and draws[j + 2] the
\* draw of tournament round j.
RECURSIVE selectLoop(_, _, _, _)
selectLoop(g, draws, j, i) ==
    IF j * 10 < g.tournamentSize
    THEN selectLoop(g, draws, j + 1,
                    IF greaterThan(fitnessAt(g, draws[j + 2]), fitnessAt(g, i))
                    THEN draws[j + 2] ELSE i)
    ELSE i

GeneticAlgorithm_select(g, draws) == selectLoop(g, draws, 0, draws[1])

\* The elitism loop of nextGeneration(): one copy per entry of topN.
RECURSIVE eliteLoop(_, _, _, _)
eliteLoop(h, g, k, newPopulation) ==
    IF k > Len(g.generationResults.topN) THEN [h |-> h, r |-> newPopulation]
    ELSE Let(CreatureGenome_copy(h, g.population[g.generationResults.topN[k] + 1]),
             LAMBDA copy : eliteLoop(copy.h, g, k + 1, Append(newPopulation, copy.r)))

\* Mutant: the breeding loop stops one genome short.
populationIncomplete_short(newPopulation, g) == Len(newPopulation) + 1 < g.populationSize

\* The condition of the breeding loop of nextGeneration().
populationIncomplete(newPopulation, g) == Len(newPopulation) < g.populationSize

\* The breeding loop of nextGeneration(); d[k] = [select1, select2,
\* crossoverPoint, mutate] holds the random draws of its k-th iteration.
RECURSIVE breedLoop(_, _, _, _, _)
breedLoop(h, g, d, k, newPopulation) ==
    IF populationIncomplete(newPopulation, g)
    THEN Let(CreatureGenome_breed(h,
                 g.population[GeneticAlgorithm_select(g, d[k].select1) + 1],
                 g.population[GeneticAlgorithm_select(g, d[k].select2) + 1],
                 d[k].crossoverPoint, d[k].mutate),
             LAMBDA child : breedLoop(child.h, g, d, k + 1, Append(newPopulation, child.r)))
    ELSE [h |-> h, r |-> newPopulation]

\* World.remove(world, objects)
World_remove(world, objects) ==
    LET gone == {objects[k] : k \in 1 .. Len(objects)}
    IN  SelectSeq(world, LAMBDA body : body \notin gone)

\* World.add(world, objects)
World_add(world, objects) == world \o objects

\* Mutant: the removal loop leaves the first creature in the world.
RECURSIVE removeCreatures_keepFirst(_, _)
removeCreatures_keepFirst(world, creatures) ==
    IF Len(creatures) > 1
    THEN removeCreatures_keepFirst(
             World_remove(world, Creature_phenome(creatures[Len(creatures)],
                                                  creatures[Len(creatures)].id)),
             SubSeq(creatures, 1, Len(creatures) - 1))
    ELSE world

\* The removal loop of nextGeneration(): creatures are popped from the end.
RECURSIVE removeCreatures(_, _)
removeCreatures(world, creatures) ==
    IF Len(creatures) > 0
    THEN removeCreatures(
             World_remove(world, Creature_phenome(creatures[Len(creatures)],
                                                  creatures[Len(creatures)].id)),
             SubSeq(creatures, 1, Len(creatures) - 1))
    ELSE world

\* A creature with the identity of its bodies: the generation it belongs to
\* and its index.
identified(creature, id) ==
    [nodes |-> creature.nodes, muscles |-> creature.muscles,
     muscleLastUpdates |-> creature.muscleLastUpdates, id |-> id]

\* this.creatures.push(creature); World.add(this.world, creature.phenome)
pushCreature(s, c) ==
    [creatures |-> Append(s.creatures, c),
     world     |-> World_add(s.world, Creature_phenome(c, c.id))]

\* The creation loop of nextGeneration(); s = [creatures, world].
RECURSIVE populateWorld(_, _, _, _)
populateWorld(h, g, k, s) ==
    IF k > Len(g.population) THEN s
    ELSE populateWorld(h, g, k + 1,
             pushCreature(s, identified(
                 Creature_new(h, g.population[k], g.startingPosition),
                 [born |-> g.generation + 1, index |-> k - 1])))

\* The end of nextGeneration(): the new population replaces the old one, the
\* old creatures leave the world, the new ones enter it, the generation is counted.
installPopulation(g, bred, timestamp) ==
    Let(populateWorld(bred.h, [g EXCEPT !.population = bred.r], 1,
            [creatures |-> <<>>, world |-> removeCreatures(g.world, g.creatures)]),
        LAMBDA s :
            [h |-> bred.h,
             g |-> [g EXCEPT !.population = bred.r,
                             !.creatures = s.creatures,
                             !.world = s.world,
                             !.generation = g.generation + 1,
                             !.currEvaluationStartTime = timestamp]])

\* nextGeneration(timestamp)
GeneticAlgorithm_nextGeneration(h, g, timestamp, d) ==
    Let(eliteLoop(h, g, 1, <<>>), LAMBDA elite :
        installPopulation(g, breedLoop(elite.h, g, d, 1, elite.r), timestamp))

\* Mutant: the random genomes have one gene of each kind less.
RECURSIVE resetLoop_oneShort(_, _, _, _, _)
resetLoop_oneShort(h, g, d, i, population) ==
    IF i < g.populationSize
    THEN Let(CreatureGenome_createRandom(h, g.maxGenotypesPerCreature - 1, d[i + 1]),
             LAMBDA genome :
                 resetLoop_oneShort(genome.h, g, d, i + 1, Append(population, genome.r)))
    ELSE [h |-> h, r |-> population]

\* The creation loop of reset(); d[i + 1] holds the draws of iteration i.
RECURSIVE resetLoop(_, _, _, _, _)
resetLoop(h, g, d, i, population) ==
    IF i < g.populationSize
    THEN Let(CreatureGenome_createRandom(h, g.maxGenotypesPerCreature, d[i + 1]),
             LAMBDA genome : resetLoop(genome.h, g, d, i + 1, Append(population, genome.r)))
    ELSE [h |-> h, r |-> population]

\* The state reset() hands to nextGeneration().
resetPopulation(h, g, d) ==
    Let(resetLoop(h, g, d, 0, <<>>), LAMBDA random :
        [h |-> random.h,
         g |-> [g EXCEPT !.generation = 0, !.timeStep = 0, !.population = random.r]])

\* reset(); d = [random, breed]
GeneticAlgorithm_reset(h, g, d) ==
    Let(resetPopulation(h, g, d.random), LAMBDA s :
        GeneticAlgorithm_nextGeneration(s.h, s.g, s.g.currEvaluationStartTime, d.breed))

\* The gene values of every genome of the population.
populationGenes(h, population) == [k \in 1 .. Len(population) |-> genes(h, population[k])]

(***************************************************************************)
(* The hooks the worker (worker.js) installs: each posts a message.        *)
(***************************************************************************)
onGenerationStart(h, g) ==
    [command    |-> "STARTED_GENERATION",
     generation |-> g.generation,
     population |-> populationGenes(h, g.population)]

onGenerationEnd(h, g) ==
    [command    |-> "FINISHED_GENERATION",
     generation |-> g.generation,
     population |-> populationGenes(h, g.population),
     results    |-> g.generationResults]

\* Mutant: the elapsed time is not measured from currEvaluationStartTime.
generationEnded_absolute(g, timestamp) == timestamp >= g.evaluationTime

\* The threshold test of update().
generationEnded(g, timestamp) == timestamp - g.currEvaluationStartTime >= g.evaluationTime

\* Mutant: the hook is invoked twice.
callOnGenerationEnd_twice(h, g, posted) ==
    IF g.onGenerationEnd # "null"
    THEN Append(Append(posted, onGenerationEnd(h, g)), onGenerationEnd(h, g))
    ELSE posted

\* if (this.onGenerationEnd !== null) this.onGenerationEnd()
callOnGenerationEnd(h, g, posted) ==
    IF g.onGenerationEnd # "null" THEN Append(posted, onGenerationEnd(h, g)) ELSE posted

\* if (this.onGenerationStart !== null) this.onGenerationStart()
callOnGenerationStart(h, g, posted) ==
    IF g.onGenerationStart # "null" THEN Append(posted, onGenerationStart(h, g)) ELSE posted

\* Mutant: the tail of update() restarts the evaluation window.
updateCreatures_restart(g, timestamp) ==
    [g EXCEPT !.creatures = [i \in 1 .. Len(g.creatures) |->
                                Creature_update(g.creatures[i], timestamp)],
              !.timeStep = g.timeStep + 1,
              !.currEvaluationStartTime = timestamp]

\* The tail of update(): every creature is updated, then the step is counted.
updateCreatures(g, timestamp) ==
    [g EXCEPT !.creatures = [i \in 1 .. Len(g.creatures) |->
                                Creature_update(g.creatures[i], timestamp)],
              !.timeStep = g.timeStep + 1]

\* The branch of update() taken when the generation has ended: g holds the
\* results of evaluate(), posted the messages of onGenerationEnd.
endGeneration(h, g, timestamp, d, posted) ==
    Let(GeneticAlgorithm_nextGeneration(h, g, timestamp, d), LAMBDA next :
        [h |-> next.h, g |-> updateCreatures(next.g, timestamp),
         threw |-> FALSE, transition |-> TRUE,
         posted |-> callOnGenerationStart(next.h, next.g, posted)])

\* The assignment this.generationResults = this.evaluate() and the hook after it.
storeResults(h, g, timestamp, d, evaluated) ==
    IF evaluated.threw
    THEN [h |-> h, g |-> g, threw |-> TRUE, transition |-> FALSE, posted |-> <<>>]
    ELSE Let([g EXCEPT !.generationResults = evaluated.results], LAMBDA g1 :
             endGeneration(h, g1, timestamp, d, callOnGenerationEnd(h, g1, <<>>)))

\* update(timestamp); d holds the draws of nextGeneration().  The result
\* names the heap, the instance, whether the call threw, whether it made a
\* generation transition and the messages the hooks posted, in order.
GeneticAlgorithm_update(h, g, timestamp, d) ==
    IF generationEnded(g, timestamp)
    THEN storeResults(h, g, timestamp, d, GeneticAlgorithm_evaluate(g))
    ELSE [h |-> h, g |-> updateCreatures(g, timestamp),
          threw |-> FALSE, transition |-> FALSE, posted |-> <<>>]

(***************************************************************************)
(* Genome workbench: a caller holding up to two parent genomes and one     *)
(* child, applying the CreatureGenome operations the way reset() and       *)
(* nextGeneration() do: random creation of the parents, then copy or       *)
(* crossover, mutation of the new genome, and promotion of the child to    *)
(* parent (the new population replacing the old one).                      *)
(***************************************************************************)
Parents == {"self", "other"}
Slots == {"self", "other", "child"}
slotOrder == <<"self", "other", "child">>

\* The deviate the gaussian draws yield for the first and the second random genome.
slotDeviate == [self |-> 0, other |-> 1]

\* The last call: its name, the genomes it was made on (a, b), the crossover
\* point (c), the nNodes handed to createRandom and the calls made so far (n).
NoOp == [name |-> "init", a |-> "none", b |-> "none", c |-> 0, nNodes |-> 0, n |-> 0]

benchGenomes(b) == [k \in 1 .. 3 |-> b[slotOrder[k]]]

\* Store a workbench state after garbage collection.
benchStore(h, b, o) ==
    \E hh \in {h}, live \in {liveRefs(benchGenomes(b))} :
        /\ heap' = [j \in 1 .. Len(live) |-> hh[live[j]]]
        /\ bench' = [s \in Slots |-> renumber(live, b[s])]
        /\ op' = o
        /\ UNCHANGED ga

opsDone == op.n

BenchCreateRandom ==
    \E s \in Parents, nNodes \in 1 .. MaxNodes :
        /\ bench[s] = NoGenome
        /\ bench["child"] = NoGenome
        /\ opsDone = 0
        /\ s = "other" => Len(bench["self"].nodeGenotypes) = nNodes
        /\ \E d \in genomeCreateDraws(nNodes, slotDeviate[s]) :
              LET res == CreatureGenome_createRandom(heap, nNodes, d)
              IN  benchStore(res.h, [bench EXCEPT ![s] = res.r],
                             [name |-> "createRandom", a |-> s, b |-> "none", c |-> 0,
                              nNodes |-> nNodes, n |-> 0])

BenchCopy ==
    \E s \in Parents :
        /\ opsDone < MaxOps
        /\ bench[s] # NoGenome
        /\ bench["child"] = NoGenome
        /\ LET res == CreatureGenome_copy(heap, bench[s])
           IN  benchStore(res.h, [bench EXCEPT !["child"] = res.r],
                          [name |-> "copy", a |-> s, b |-> "none", c |-> 0, nNodes |-> 0,
                           n |-> opsDone + 1])

BenchCrossover ==
    \E s, o \in Parents :
        /\ opsDone < MaxOps
        /\ bench[s] # NoGenome /\ bench[o] # NoGenome
        /\ bench["child"] = NoGenome
        /\ \E c \in randomInt(0, Len(bench[s].nodeGenotypes)) :
              LET res == CreatureGenome_crossover(heap, bench[s], bench[o], c)
              IN  benchStore(res.h, [bench EXCEPT !["child"] = res.r],
                             [name |-> "crossover", a |-> s, b |-> o, c |-> c, nNodes |-> 0,
                              n |-> opsDone + 1])

\* childGenome.mutate(), the second step of breed().
BenchMutate ==
    /\ opsDone < MaxOps
    /\ op.name \in {"copy", "crossover"}
    /\ \E d \in mutateDraws(Len(bench["child"].nodeGenotypes), MaxMutations) :
          benchStore(CreatureGenome_mutate(heap, bench["child"], d), bench,
                     [op EXCEPT !.name = "mutate", !.n = opsDone + 1])

\* The child replaces a parent, as the new population replaces the old one.
BenchPromote ==
    \E s \in Parents :
        /\ opsDone < MaxOps
        /\ bench["child"] # NoGenome
        /\ benchStore(heap, [bench EXCEPT ![s] = bench["child"], !["child"] = NoGenome],
                      [name |-> "promote", a |-> s, b |-> "none", c |-> 0, nNodes |-> 0,
                       n |-> opsDone + 1])

InitGenome ==
    /\ heap = <<>>
    /\ bench = [s \in Slots |-> NoGenome]
    /\ op = NoOp
    /\ ga = GeneticAlgorithm_new(<<>>, defaults)

NextGenome ==
    \/ BenchCreateRandom
    \/ BenchCopy
    \/ BenchCrossover
    \/ BenchMutate
    \/ BenchPromote

SpecGenome == InitGenome /\ [][NextGenome]_vars

(***************************************************************************)
(* The genetic algorithm driven by its environment: reset(), update() with *)
(* the engine's timestamp, and the physics engine moving the bodies.       *)
(***************************************************************************)
\* The static ground body the worker adds to the world.
ground == [kind |-> "ground"]

\* The options handed to the constructor.
OptionsExplored ==
    {[defaults EXCEPT !.populationSize = 2, !.evaluationTime = 1000,
                      !.elitismRatio = e, !.tournamentSize = 10,
                      !.maxGenotypesPerCreature = 2,
                      !.onGenerationStart = "worker", !.onGenerationEnd = "worker"] :
        e \in {0, 10, 20}}
    \cup {[defaults EXCEPT !.populationSize = 2, !.evaluationTime = 1000,
                           !.elitismRatio = 10, !.tournamentSize = 10,
                           !.maxGenotypesPerCreature = 2]}
    \cup {[defaults EXCEPT !.populationSize = 3, !.evaluationTime = 1000,
                           !.elitismRatio = 20, !.tournamentSize = 20,
                           !.maxGenotypesPerCreature = 2,
                           !.onGenerationStart = "worker", !.onGenerationEnd = "worker"]}

\* The engine timestamps handed to update(), in milliseconds.
Timestamps == {k * 500 : k \in 0 .. MaxTicks}

\* The x coordinates the engine moves a body to.
PositionsExplored == {5, 50}

\* Deviates of the gaussian draws of the i-th random genome of reset().
resetDeviate(i) == i % 2

\* The draws of the creation loop of reset(): every muscle of the call draws
\* the same two endpoints.
resetRandomDraws(g) ==
    {[i \in 1 .. g.populationSize |->
        [k \in 1 .. g.maxGenotypesPerCreature |-> createDraw(resetDeviate(i - 1), a, b)]] :
        a \in {x \in randomInt(0, g.maxGenotypesPerCreature) : x = 0},
        b \in {x \in randomInt(0, g.maxGenotypesPerCreature) : x <= 1}}

\* The number of tournament rounds of one select() call.
tournamentRounds(g) == IF g.tournamentSize <= 0 THEN 0 ELSE (g.tournamentSize + 9) \div 10

\* The select() draws explored for the two parents of a child: draws that
\* return the lowest index select() can return, and draws that return the
\* highest one.
selectDraws(g) ==
    Let([1 .. tournamentRounds(g) + 1 -> randomInt(0, g.populationSize)], LAMBDA all :
    Let({GeneticAlgorithm_select(g, s) : s \in all}, LAMBDA outcomes :
        [select1 |-> CHOOSE s \in all :
                        \A j \in outcomes : GeneticAlgorithm_select(g, s) <= j,
         select2 |-> CHOOSE s \in all :
                        \A j \in outcomes : GeneticAlgorithm_select(g, s) >= j]))

\* The number of uniform draws of a mutate() call that fall below pMutate.
hitsOf(d) ==
    Cardinality({k \in 1 .. Len(d.nodes) : d.nodes[k].p < NodeGenotype_pMutate})
    + Cardinality({k \in 1 .. Len(d.muscles) : d.muscles[k].p < MuscleGenotype_pMutate})

\* The mutate() draws explored for a bred child: the size of its first node
\* or the bodyB of its first muscle is redrawn.
gaMutateDraws(nNodes, maxHits) ==
    {d \in mutateDraws(nNodes, maxHits) :
        /\ \A k \in 1 .. nNodes : d.nodes[k].p < NodeGenotype_pMutate =>
              k = 1 /\ d.nodes[k].field = 0
        /\ \A k \in 1 .. nNodes : d.muscles[k].p < MuscleGenotype_pMutate =>
              k = 1 /\ d.muscles[k].field = 1 /\ d.muscles[k].body = 0}

noMutation(nNodes) ==
    [nodes |-> [k \in 1 .. nNodes |-> nodeMiss], muscles |-> [k \in 1 .. nNodes |-> muscleMiss]]

\* The draws of the breeding loop of nextGeneration() for `count` children:
\* every iteration draws the same parents and crossover point, and only the
\* last child is hit by mutation.
breedDraws(g, count, maxHits) ==
    IF count <= 0 THEN {<<>>}
    ELSE {[k \in 1 .. count |->
             [select1 |-> s.select1, select2 |-> s.select2, crossoverPoint |-> c,
              mutate |-> IF k = count THEN m ELSE noMutation(g.maxGenotypesPerCreature)]] :
             s \in {selectDraws(g)},
             c \in randomInt(0, g.maxGenotypesPerCreature),
             m \in gaMutateDraws(g.maxGenotypesPerCreature, maxHits)}

RECURSIVE breedHits(_, _)
breedHits(d, k) == IF k > Len(d) THEN 0 ELSE hitsOf(d[k].mutate) + breedHits(d, k + 1)

\* The population's objects after garbage collection.
collect(h, g) ==
    Let(liveRefs(g.population), LAMBDA live :
        [h |-> [j \in 1 .. Len(live) |-> h[live[j]]],
         g |-> [g EXCEPT !.population = [k \in 1 .. Len(g.population) |->
                                            renumber(live, g.population[k])]]])

gaStore(h, g, o) ==
    \E s \in {collect(h, g)} :
        /\ heap' = s.h
        /\ ga' = s.g
        /\ op' = o
        /\ UNCHANGED bench

\* The environment's record of the last call: its name and timestamp, whether
\* it threw, whether it made a generation transition, the messages posted,
\* the gene values of the random genomes of reset(), the gene values and the
\* fitness of the population nextGeneration() started from, counters, and
\* for every creature the largest x coordinate any of its bodies has had
\* since the creature was built, and the generations of the current run
\* (since the last reset()) for which onGenerationStart has been invoked.
NoCall ==
    [name |-> "new", timestamp |-> 0, threw |-> FALSE, transition |-> FALSE,
     posted |-> <<>>, random |-> <<>>, parents |-> <<>>, parentFitness |-> <<>>,
     lastTransition |-> -1, calls |-> 0, hits |-> 0, moves |-> 0, furthest |-> <<>>,
     started |-> {}]

\* The generations the messages of one hook report.
generationsPosted(posted, command) ==
    {posted[k].generation : k \in {j \in 1 .. Len(posted) : posted[j].command = command}}

\* The largest x coordinate of the bodies of each creature as built.
spawned(creatures) ==
    [i \in 1 .. Len(creatures) |-> Creature_getDisplacement(creatures[i])]

Init ==
    /\ heap = <<>>
    /\ bench = [s \in Slots |-> NoGenome]
    /\ op = NoCall
    /\ ga \in {GeneticAlgorithm_new(<<ground>>, o) : o \in OptionsExplored}

Reset ==
    /\ op.calls < MaxCalls
    /\ \E random \in resetRandomDraws(ga) :
       \E s \in {resetPopulation(heap, ga, random)} :
       \E breed \in breedDraws(s.g, ga.populationSize - Len(ga.generationResults.topN),
                               MaxHits - op.hits) :
       \E res \in {GeneticAlgorithm_reset(heap, ga, [random |-> random, breed |-> breed])} :
          gaStore(res.h, res.g,
                  [op EXCEPT !.name = "reset", !.threw = FALSE, !.transition = FALSE,
                             !.posted = <<>>,
                             !.random = populationGenes(s.h, s.g.population),
                             !.parents = populationGenes(s.h, s.g.population),
                             !.parentFitness = <<>>,
                             !.calls = op.calls + 1,
                             !.hits = op.hits + breedHits(breed, 1),
                             !.furthest = spawned(res.g.creatures),
                             !.started = {}])

Update ==
    \E timestamp \in Timestamps :
        /\ timestamp >= op.timestamp
        /\ op.calls < MaxCalls
        /\ \E evaluated \in {GeneticAlgorithm_evaluate(ga)} :
           \E breed \in (IF generationEnded(ga, timestamp) /\ ~evaluated.threw
                         THEN breedDraws([ga EXCEPT !.generationResults = evaluated.results],
                                         ga.populationSize - Len(evaluated.results.topN),
                                         MaxHits - op.hits)
                         ELSE {<<>>}) :
           \E res \in {GeneticAlgorithm_update(heap, ga, timestamp, breed)} :
              gaStore(res.h, res.g,
                      [op EXCEPT !.name = "update", !.timestamp = timestamp,
                                 !.threw = res.threw, !.transition = res.transition,
                                 !.posted = res.posted,
                                 !.random = <<>>,
                                 !.parents = IF res.transition
                                             THEN populationGenes(heap, ga.population)
                                             ELSE <<>>,
                                 !.parentFitness =
                                     IF res.transition
                                     THEN [i \in 1 .. Len(ga.creatures) |->
                                             Creature_getDisplacement(ga.creatures[i])]
                                     ELSE <<>>,
                                 !.lastTransition = IF res.transition THEN timestamp
                                                    ELSE op.lastTransition,
                                 !.calls = op.calls + 1,
                                 !.hits = op.hits + breedHits(breed, 1),
                                 !.furthest = IF res.transition THEN spawned(res.g.creatures)
                                              ELSE op.furthest,
                                 !.started = op.started \cup
                                     generationsPosted(res.posted, "STARTED_GENERATION")])

\* Engine.update(): the engine moves a body of a creature.
Physics ==
    /\ op.moves < MaxMoves
    /\ \E i \in 1 .. Len(ga.creatures) :
       \E k \in 1 .. Len(ga.creatures[i].nodes), x \in PositionsExplored :
          /\ ga.creatures[i].nodes[k].position # x
          /\ ga' = [ga EXCEPT !.creatures[i].nodes[k].position = x]
          /\ op' = [op EXCEPT !.name = "physics", !.threw = FALSE, !.transition = FALSE,
                              !.posted = <<>>, !.random = <<>>, !.parents = <<>>,
                              !.parentFitness = <<>>, !.moves = op.moves + 1,
                              !.furthest[i] = MathMax(op.furthest[i], x)]
          /\ UNCHANGED <<heap, bench>>

Next ==
    \/ Reset
    \/ Update
    \/ Physics

Spec == Init /\ [][Next]_vars

(***************************************************************************)
(* evaluate() as a function of the creatures' positions: a population of   *)
(* single-node creatures after reset(), the engine having moved each body. *)
(***************************************************************************)
evalOptions(p, e) ==
    [defaults EXCEPT !.populationSize = p, !.elitismRatio = e, !.maxGenotypesPerCreature = 1]

\* The draws of the reset() that produced the population: deviate 0, index 0
\* in every select() draw, no mutation hit.
evalResetDraws(g) ==
    LET first == [j \in 1 .. tournamentRounds(g) + 1 |-> 0]
    IN  [random |-> [i \in 1 .. g.populationSize |-> <<createDraw(0, 0, 0)>>],
         breed  |-> [k \in 1 .. g.populationSize |->
                       [select1 |-> first, select2 |-> first, crossoverPoint |-> 0,
                        mutate |-> noMutation(1)]]]

evalStart(p, e) ==
    Let(GeneticAlgorithm_new(<<ground>>, evalOptions(p, e)), LAMBDA g :
    Let(GeneticAlgorithm_reset(<<>>, g, evalResetDraws(g)), LAMBDA res :
        collect(res.h, res.g)))

\* The bodies at the x coordinates xs.
placed(g, xs) ==
    [g EXCEPT !.creatures = [i \in 1 .. Len(g.creatures) |->
                                [g.creatures[i] EXCEPT !.nodes[1].position = xs[i]]]]

\* The x coordinates the engine has moved the bodies to: small values, a
\* negative one and one with two digits.
FitnessExplored == (0 .. MaxFitness) \cup {-1, 10}

InitEval ==
    \E p \in 1 .. MaxPopulation, n \in 1 .. MaxPopulation + 1 :
    \E s \in {evalStart(p, 10 * n)} :
    \E xs \in [1 .. p -> FitnessExplored] :
        /\ heap = s.h
        /\ ga = placed(s.g, xs)
        /\ bench = [b \in Slots |-> NoGenome]
        /\ op = [name |-> "physics"]

\* evaluate() is called; the environment holds the dictionary it returns.
Evaluate ==
    /\ op.name = "physics"
    /\ op' = [name |-> "evaluate", returned |-> GeneticAlgorithm_evaluate(ga)]
    /\ UNCHANGED <<heap, bench, ga>>

NextEval == Evaluate

SpecEval == InitEval /\ [][NextEval]_vars

(***************************************************************************)
(* select() as nextGeneration() calls it: on the results update() has just *)
(* stored, or, from a first reset(), on the results of the constructor.    *)
(***************************************************************************)
\* The tournamentSize options explored, in tenths: 0, the fraction 0.5, 1 and 2.
TournamentSizesExplored == {0, 5, 10, 20}

selectStart(p, t) ==
    Let(GeneticAlgorithm_new(<<ground>>, [evalOptions(p, 10) EXCEPT !.tournamentSize = t]),
        LAMBDA g :
    Let(GeneticAlgorithm_reset(<<>>, g, evalResetDraws(g)), LAMBDA res :
        collect(res.h, res.g)))

\* this.generationResults = this.evaluate()
scored(g) == [g EXCEPT !.generationResults = GeneticAlgorithm_evaluate(g).results]

InitSelect ==
    \E p \in 1 .. MaxPopulation, t \in TournamentSizesExplored :
    \E s \in {selectStart(p, t)} :
    \E xs \in [1 .. p -> 0 .. MaxFitness] :
        /\ heap = s.h
        /\ ga \in {placed(s.g, xs), scored(placed(s.g, xs))}
        /\ bench = [b \in Slots |-> NoGenome]
        /\ op = [name |-> "physics"]

\* select() is called; the environment holds the randomInt draws it consumed,
\* in order, and the index it returned.
Select ==
    /\ op.name = "physics"
    /\ \E draws \in [1 .. tournamentRounds(ga) + 1 -> randomInt(0, ga.populationSize)] :
          op' = [name |-> "select", draws |-> draws,
                 returned |-> GeneticAlgorithm_select(ga, draws)]
    /\ UNCHANGED <<heap, bench, ga>>

NextSelect == Select

SpecSelect == InitSelect /\ [][NextSelect]_vars

(***************************************************************************)
(* The constructor as a function of its options: the caller chooses        *)
(* populationSize, elitismRatio and tournamentSize, then constructs.       *)
(***************************************************************************)
\* The elitismRatio and tournamentSize options explored, in tenths: 0, the
\* fraction 0.5 and the absolute counts 1 .. MaxPopulation + 1.
CountsExplored == {0, 5} \cup {10 * n : n \in 1 .. MaxPopulation + 1}

newOptions(p, e, t) ==
    [defaults EXCEPT !.populationSize = p, !.elitismRatio = e, !.tournamentSize = t]

InitNew ==
    /\ heap = <<>>
    /\ bench = [b \in Slots |-> NoGenome]
    /\ ga = GeneticAlgorithm_new(<<>>, defaults)
    /\ \E p \in 0 .. MaxPopulation, e \in CountsExplored, t \in CountsExplored :
          op = [name |-> "options", options |-> newOptions(p, e, t), threw |-> FALSE]

\* new GeneticAlgorithm(world, options).  The constructor has no throw
\* statement and calls nothing that throws on numbers.
Construct ==
    /\ op.name = "options"
    /\ ga' = GeneticAlgorithm_new(<<ground>>, op.options)
    /\ op' = [op EXCEPT !.name = "new", !.threw = FALSE]
    /\ UNCHANGED <<heap, bench>>

NextNew == Construct

SpecNew == InitNew /\ [][NextNew]_vars

(***************************************************************************)
(* A creature driven by update(timestamp) alone: two nodes joined by one   *)
(* muscle whose genotype was constructed with the delays the caller chose. *)
(***************************************************************************)
\* The contractDelay and extendDelay options explored, in milliseconds.
DelaysExplored == {-1, 0, 500, 1000}

\* new CreatureGenome([node, node], [new MuscleGenotype({contractDelay, extendDelay})])
\* with the other options at the constructor's defaults.
delayedGenome(contractDelay, extendDelay) ==
    Let(NodeGenotype_createRandom(<<>>, createDraw(0, 0, 1).node), LAMBDA n0 :
    Let(NodeGenotype_createRandom(n0.h, createDraw(0, 0, 1).node), LAMBDA n1 :
    Let(MuscleGenotype_new(n1.h, [bodyA |-> 0, bodyB |-> 1, stiffness |-> 10,
                                  contractedLength |-> 60, extendedLength |-> 80,
                                  contractDelay |-> contractDelay,
                                  extendDelay |-> extendDelay]), LAMBDA m :
        CreatureGenome_new(m.h, <<n0.r, n1.r>>, <<m.r>>))))

InitCreature ==
    \E contractDelay \in DelaysExplored, extendDelay \in DelaysExplored :
    \E s \in {delayedGenome(contractDelay, extendDelay)} :
        /\ heap = s.h
        /\ bench = [b \in Slots |-> IF b = "self" THEN s.r ELSE NoGenome]
        /\ ga = GeneticAlgorithm_new(<<>>, defaults)
        /\ op = [name |-> "new Creature", timestamp |-> 0, creature |-> Creature_new(s.h, s.r, 0)]

\* creature.update(timestamp) with the engine's non-decreasing timestamp.
UpdateCreature ==
    \E timestamp \in Timestamps :
        /\ timestamp >= op.timestamp
        /\ op' = [name |-> "creature.update", timestamp |-> timestamp,
                  creature |-> Creature_update(op.creature, timestamp)]
        /\ UNCHANGED <<heap, bench, ga>>

NextCreature == UpdateCreature

SpecCreature == InitCreature /\ [][NextCreature]_vars

(***************************************************************************)
(* A creature built from a genome and scored: the genome is constructed    *)
(* from MaxNodes node genes and as many muscle genes with the endpoints    *)
(* the caller chose, possibly mutated, then handed to new Creature the way *)
(* nextGeneration() does and scored the way evaluate() does.               *)
(***************************************************************************)
\* The endpoint options of the muscle genes explored.
EndpointsExplored(nNodes) ==
    {e \in [bodyA : 0 .. nNodes - 1, bodyB : 0 .. nNodes - 1] : e.bodyA <= e.bodyB}

RECURSIVE shapedLoop(_, _, _, _, _)
shapedLoop(h, shape, i, nodeGenotypes, muscleGenotypes) ==
    IF i > Len(shape) THEN CreatureGenome_new(h, nodeGenotypes, muscleGenotypes)
    ELSE Let(NodeGenotype_createRandom(h, createDraw(0, 0, 1).node), LAMBDA n :
         Let(MuscleGenotype_new(n.h, [bodyA |-> shape[i].bodyA, bodyB |-> shape[i].bodyB,
                                      stiffness |-> 10, contractedLength |-> 60,
                                      extendedLength |-> 80, contractDelay |-> 1000,
                                      extendDelay |-> 1000]), LAMBDA m :
             shapedLoop(m.h, shape, i + 1, Append(nodeGenotypes, n.r),
                        Append(muscleGenotypes, m.r))))

\* new CreatureGenome(nodes, muscles) with the muscles' endpoints as in shape.
shapedGenome(shape) == shapedLoop(<<>>, shape, 1, <<>>, <<>>)

\* The console.error calls of the Creature constructor: for every enabled
\* muscle gene, in order, whether the error was reported.
Creature_errors(h, genome) ==
    Let(filterEnabled(h, genome.nodeGenotypes, 1), LAMBDA nodeRefs :
    Let(filterEnabled(h, genome.muscleGenotypes, 1), LAMBDA muscleRefs :
        [k \in 1 .. Len(muscleRefs) |->
            \/ h[muscleRefs[k]].bodyA >= Len(nodeRefs)
            \/ h[muscleRefs[k]].bodyB >= Len(nodeRefs)]))

InitBuild ==
    \E shape \in [1 .. MaxNodes -> EndpointsExplored(MaxNodes)] :
    \E s \in {shapedGenome(shape)} :
        /\ heap = s.h
        /\ bench = [b \in Slots |-> IF b = "self" THEN s.r ELSE NoGenome]
        /\ ga = GeneticAlgorithm_new(<<>>, defaults)
        /\ op = [name |-> "new CreatureGenome"]

\* genome.mutate()
MutateGenome ==
    /\ op.name = "new CreatureGenome"
    /\ \E d \in mutateDraws(MaxNodes, 1) :
          heap' = CreatureGenome_mutate(heap, bench["self"], d)
    /\ op' = [name |-> "mutate"]
    /\ UNCHANGED <<bench, ga>>

\* new Creature(genome, x, y) at the default starting position.
BuildCreature ==
    /\ op.name \in {"new CreatureGenome", "mutate"}
    /\ op' = [name |-> "new Creature",
              creature |-> Creature_new(heap, bench["self"], defaults.startingPosition),
              errors |-> Creature_errors(heap, bench["self"])]
    /\ UNCHANGED <<heap, bench, ga>>

\* const fitness = creature.getDisplacement(), the score evaluate() gives.
ScoreCreature ==
    /\ op.name = "new Creature"
    /\ op' = [name |-> "getDisplacement", creature |-> op.creature, errors |-> op.errors,
              fitness |-> Creature_getDisplacement(op.creature)]
    /\ UNCHANGED <<heap, bench, ga>>

NextBuild ==
    \/ MutateGenome
    \/ BuildCreature
    \/ ScoreCreature

SpecBuild == InitBuild /\ [][NextBuild]_vars

(***************************************************************************)
(* Two genomes of independently chosen sizes held by a caller of the       *)
(* genome API: the genomes are created, one gene of one of them may be     *)
(* mutated (gene.mutate(), the call CreatureGenome.mutate() makes for      *)
(* every gene), then one genome may be crossed or bred with the other.     *)
(***************************************************************************)
\* The draws of one NodeGenotype.mutate() call and of one
\* MuscleGenotype.mutate(nNodes) call: below pMutate or not.
nodeMutateDraws == nodeHits \cup {nodeMiss}
muscleMutateDraws(nNodes) == muscleHits(nNodes) \cup {muscleMiss}

InitGene ==
    /\ heap = <<>>
    /\ bench = [s \in Slots |-> NoGenome]
    /\ op = [name |-> "init"]
    /\ ga = GeneticAlgorithm_new(<<>>, defaults)

\* CreatureGenome.createRandom(nNodes), first for self, then for other.
CreateRandomGenome ==
    /\ op.name \in {"init", "createRandom"}
    /\ \E s \in Parents, nNodes \in 1 .. MaxNodes :
          /\ bench[s] = NoGenome
          /\ s = "other" => bench["self"] # NoGenome
          /\ \E d \in genomeCreateDraws(nNodes, slotDeviate[s]) :
             \E res \in {CreatureGenome_createRandom(heap, nNodes, d)} :
                /\ heap' = res.h
                /\ bench' = [bench EXCEPT ![s] = res.r]
                /\ op' = [name |-> "createRandom", a |-> s, nNodes |-> nNodes]
    /\ UNCHANGED ga

\* nodeGenotype.mutate() on one node gene of a genome; `before` is the gene
\* as the call found it.
MutateNodeGene ==
    /\ op.name = "createRandom"
    /\ \E s \in Parents :
       \E k \in 1 .. Len(bench[s].nodeGenotypes), d \in nodeMutateDraws :
          /\ heap' = NodeGenotype_mutate(heap, bench[s].nodeGenotypes[k], d)
          /\ op' = [name |-> "NodeGenotype.mutate", ref |-> bench[s].nodeGenotypes[k],
                    draw |-> d, before |-> heap[bench[s].nodeGenotypes[k]]]
    /\ UNCHANGED <<bench, ga>>

\* muscleGenotype.mutate(this.nodeGenotypes.length) on one muscle gene.
MutateMuscleGene ==
    /\ op.name = "createRandom"
    /\ \E s \in Parents :
       \E k \in 1 .. Len(bench[s].muscleGenotypes),
          d \in muscleMutateDraws(Len(bench[s].nodeGenotypes)) :
          /\ heap' = MuscleGenotype_mutate(heap, bench[s].muscleGenotypes[k], d)
          /\ op' = [name |-> "MuscleGenotype.mutate", ref |-> bench[s].muscleGenotypes[k],
                    draw |-> d, before |-> heap[bench[s].muscleGenotypes[k]]]
    /\ UNCHANGED <<bench, ga>>

\* The caller's state after a call that returned res (a genome and the heap
\* holding its genes) or raised a TypeError.
returned(name, s, o, c, threw, res) ==
    /\ heap' = IF threw THEN heap ELSE res.h
    /\ bench' = IF threw THEN bench ELSE [bench EXCEPT !["child"] = res.r]
    /\ op' = [name |-> name, a |-> s, b |-> o, c |-> c, threw |-> threw]
    /\ UNCHANGED ga

\* bench[s].crossover(bench[o])
Crossover ==
    /\ op.name \notin {"init", "crossover", "breed"}
    /\ \E s, o \in {p \in Parents : bench[p] # NoGenome} :
       \E c \in randomInt(0, Len(bench[s].nodeGenotypes)) :
          IF crossoverThrows(heap, bench[s], bench[o], c)
          THEN returned("crossover", s, o, c, TRUE, [h |-> heap, r |-> NoGenome])
          ELSE returned("crossover", s, o, c, FALSE,
                        CreatureGenome_crossover(heap, bench[s], bench[o], c))

\* CreatureGenome.breed(bench[s], bench[o]): a TypeError of crossover() is
\* not caught.
Breed ==
    /\ op.name \notin {"init", "crossover", "breed"}
    /\ \E s, o \in {p \in Parents : bench[p] # NoGenome} :
       \E c \in randomInt(0, Len(bench[s].nodeGenotypes)),
          d \in gaMutateDraws(Len(bench[s].nodeGenotypes), MaxHits) :
          IF crossoverThrows(heap, bench[s], bench[o], c)
          THEN returned("breed", s, o, c, TRUE, [h |-> heap, r |-> NoGenome])
          ELSE returned("breed", s, o, c, FALSE,
                        CreatureGenome_breed(heap, bench[s], bench[o], c, d))

NextGene ==
    \/ CreateRandomGenome
    \/ MutateNodeGene
    \/ MutateMuscleGene

SpecGene == InitGene /\ [][NextGene]_vars

NextBreed ==
    \/ CreateRandomGenome
    \/ MutateNodeGene
    \/ MutateMuscleGene
    \/ Crossover
    \/ Breed

SpecBreed == InitGene /\ [][NextBreed]_vars

(***************************************************************************)
(* The worker (worker.js): onmessage sets four flags, the main loop reads  *)
(* them. Both run to completion on the worker's single thread, so each is  *)
(* one step. The worker constructs its GeneticAlgorithm with the default   *)
(* population options and never calls reset().                              *)
(***************************************************************************)
\* The most messages the worker receives and the most main-loop ticks that
\* get as far as Engine.update().
MaxMessages == 4
MaxFrames == 3

\* message.data of the messages received: the four commands the worker knows,
\* a command it does not know, and data without a command property.
MessagesExplored ==
    {[hasCommand |-> TRUE, command |-> c] :
        c \in {"START", "QUIT", "GET_POPULATION", "GET_PROGRESS", "UNKNOWN"}}
    \cup {[hasCommand |-> FALSE, command |-> "none"]}

workerOptions ==
    [defaults EXCEPT !.evaluationTime = 60000,
                     !.onGenerationStart = "worker", !.onGenerationEnd = "worker"]

\* engine.timing.timestamp after `frames` calls of Engine.update(engine, fps)
\* with fps = 1000 / 60, in whole milliseconds: update() compares it with
\* whole numbers of milliseconds only.
engineTimestamp(frames) == (frames * 1000) \div 60

\* The worker's flags, the engine's frame count, what the last step did (its
\* name, whether it threw, the messages it posted, the GA.update() and
\* Engine.update() calls it made), and the record of the messages received:
\* how many, whether START and QUIT were among them, the GET_POPULATION
\* requests received since the last GET_POPULATION reply (pending) and the
\* number of them the last step's reply answered.
NoMessage ==
    [name |-> "main", hasStarted |-> FALSE, shouldQuit |-> FALSE,
     shouldSendPopulation |-> FALSE, shouldSendProgress |-> FALSE,
     frames |-> 0, threw |-> FALSE, posted |-> <<>>, updates |-> 0, steps |-> 0,
     received |-> 0, startReceived |-> FALSE, quitReceived |-> FALSE,
     pending |-> 0, answered |-> 0]

\* onmessage = (message) => {...}: the flags after the handler.
onmessage(w, message) ==
    IF ~message.hasCommand THEN w
    ELSE CASE message.command = "START" -> [w EXCEPT !.hasStarted = TRUE]
           [] message.command = "GET_POPULATION" -> [w EXCEPT !.shouldSendPopulation = TRUE]
           [] message.command = "GET_PROGRESS" -> [w EXCEPT !.shouldSendProgress = TRUE]
           [] message.command = "QUIT" -> [w EXCEPT !.shouldQuit = TRUE]
           [] OTHER -> w

\* Mutant: the flag is left set after the reply.
sendPopulation_keepsFlag(h, g, w) ==
    [w EXCEPT !.posted = Append(w.posted,
                                [command    |-> "GET_POPULATION",
                                 generation |-> g.generation,
                                 population |-> populationGenes(h, g.population)])]

sendPopulation(h, g, w) ==
    [w EXCEPT !.posted = Append(w.posted,
                                [command    |-> "GET_POPULATION",
                                 generation |-> g.generation,
                                 population |-> populationGenes(h, g.population)]),
              !.shouldSendPopulation = FALSE]

sendProgress(h, g, w) ==
    [w EXCEPT !.posted = Append(w.posted,
                                [command    |-> "GET_PROGRESS",
                                 generation |-> g.generation,
                                 progress   |-> [i \in 1 .. Len(g.creatures) |->
                                                   Creature_getDisplacement(g.creatures[i])]]),
              !.shouldSendProgress = FALSE]

\* The two if statements that close a tick of the main loop.
sendReplies(h, g, w) ==
    Let(IF w.shouldSendPopulation THEN sendPopulation(h, g, w) ELSE w, LAMBDA sent :
        IF sent.shouldSendProgress THEN sendProgress(h, g, sent) ELSE sent)

\* A tick that was cut short by an exception of GA.update().
aborted(h, g, w, updates, steps, posted) ==
    [h |-> h, g |-> g,
     w |-> [w EXCEPT !.threw = TRUE, !.posted = posted, !.updates = updates,
                     !.steps = steps, !.frames = w.frames + steps]]

\* Engine.update(engine, fps): the timestamp advances by fps and the
\* beforeUpdate handler calls GA.update(event.timestamp); then the replies.
engineUpdate(first, w) ==
    Let(GeneticAlgorithm_update(first.h, first.g, engineTimestamp(w.frames + 1), <<>>),
        LAMBDA second :
        IF second.threw
        THEN aborted(second.h, second.g, w, 2, 1, first.posted \o second.posted)
        ELSE [h |-> second.h, g |-> second.g,
              w |-> sendReplies(second.h, second.g,
                                [w EXCEPT !.threw = FALSE,
                                          !.posted = first.posted \o second.posted,
                                          !.updates = 2, !.steps = 1,
                                          !.frames = w.frames + 1])])

\* One tick of the main loop (the callback of setInterval).
mainLoop(h, g, w) ==
    IF w.shouldQuit
    THEN [h |-> h, g |-> g,
          w |-> [w EXCEPT !.threw = FALSE, !.posted = <<>>, !.updates = 0, !.steps = 0]]
    ELSE IF w.hasStarted
         THEN Let(GeneticAlgorithm_update(h, g, engineTimestamp(w.frames), <<>>),
                  LAMBDA first :
                  IF first.threw
                  THEN aborted(first.h, first.g, w, 1, 0, first.posted)
                  ELSE engineUpdate(first, w))
         ELSE [h |-> h, g |-> g,
               w |-> [w EXCEPT !.threw = FALSE, !.posted = <<>>, !.updates = 0,
                               !.steps = 0]]

\* The number of messages of one command in a list of posted messages.
posts(posted, command) ==
    Cardinality({k \in 1 .. Len(posted) : posted[k].command = command})

InitWorker ==
    /\ heap = <<>>
    /\ bench = [s \in Slots |-> NoGenome]
    /\ op = NoMessage
    /\ ga = GeneticAlgorithm_new(<<ground>>, workerOptions)

\* The worker receives a message.
Receive ==
    /\ op.received < MaxMessages
    /\ \E message \in MessagesExplored :
       \E w \in {onmessage(op, message)} :
          /\ op' = [w EXCEPT !.name = "onmessage", !.threw = FALSE, !.posted = <<>>,
                             !.updates = 0, !.steps = 0,
                             !.received = op.received + 1,
                             !.startReceived = op.startReceived
                                               \/ (message.hasCommand
                                                   /\ message.command = "START"),
                             !.quitReceived = op.quitReceived
                                              \/ (message.hasCommand
                                                  /\ message.command = "QUIT"),
                             !.pending = IF message.hasCommand
                                            /\ message.command = "GET_POPULATION"
                                         THEN op.pending + 1 ELSE op.pending,
                             !.answered = 0]
          /\ UNCHANGED <<heap, bench, ga>>

\* The timer fires the main loop.
Tick ==
    /\ (op.hasStarted /\ ~op.shouldQuit) => op.frames < MaxFrames
    /\ \E res \in {mainLoop(heap, ga, op)} :
       \E replies \in {posts(res.w.posted, "GET_POPULATION")} :
          /\ heap' = res.h
          /\ ga' = res.g
          /\ op' = [res.w EXCEPT !.name = "tick",
                                 !.pending = IF replies > 0 THEN 0 ELSE op.pending,
                                 !.answered = IF replies > 0 THEN op.pending ELSE 0]
          /\ UNCHANGED bench

NextWorker ==
    \/ Receive
    \/ Tick

SpecWorker == InitWorker /\ [][NextWorker]_vars

(***************************************************************************)
(* Reference notions used by the properties (spec section 4.2): the muscle *)
(* graph has an edge for every muscle gene with bodyA # bodyB.             *)
(***************************************************************************)
nodeCount(g) == Len(g.nodeGenotypes)
nodeIds(g) == 0 .. nodeCount(g) - 1

muscleEdges(h, g) ==
    {{h[g.muscleGenotypes[k]].bodyA, h[g.muscleGenotypes[k]].bodyB} :
        k \in {j \in 1 .. Len(g.muscleGenotypes) :
                  h[g.muscleGenotypes[j]].bodyA # h[g.muscleGenotypes[j]].bodyB}}

RECURSIVE reachable(_, _)
reachable(edges, S) ==
    LET T == S \cup {x \in UNION edges : \E e \in edges : x \in e /\ e \cap S # {}}
    IN  IF T = S THEN S ELSE reachable(edges, T)

components(h, g) == {reachable(muscleEdges(h, g), {i}) : i \in nodeIds(g)}

enabledNodes(h, g) == {i \in nodeIds(g) : h[g.nodeGenotypes[i + 1]].isEnabled}

setMin(S) == CHOOSE x \in S : \A y \in S : x <= y

\* The primary group of section 4.2: a largest component, the one discovered
\* first (holding the lowest node index) among those of maximum size.
primaryComponent(h, g) ==
    CHOOSE C \in components(h, g) :
        \A D \in components(h, g) :
            \/ Cardinality(D) < Cardinality(C)
            \/ Cardinality(D) = Cardinality(C) /\ setMin(C) <= setMin(D)

\* The genome the last workbench operation constructed.
constructed ==
    IF op.name = "createRandom" THEN bench[op.a]
    ELSE IF op.name \in {"copy", "crossover"} THEN bench["child"]
    ELSE NoGenome

(***************************************************************************)
(* C1: after CreatureGenome construction the enabled nodes form a          *)
(* connected component of the muscle graph, and no connected component has *)
(* strictly more nodes than the enabled one.                               *)
(* Does not hold of the code: see C1_LargestComponentEnabled's trace.      *)
(***************************************************************************)
C1_LargestComponentEnabled ==
    constructed # NoGenome =>
        /\ enabledNodes(heap, constructed) \in components(heap, constructed)
        /\ \A C \in components(heap, constructed) :
              Cardinality(C) <= Cardinality(enabledNodes(heap, constructed))

(***************************************************************************)
(* C2: after CreatureGenome.mutate() returns, the isEnabled flags of all   *)
(* node and muscle genes are those a fresh connectivity analysis of the    *)
(* mutated muscle set yields; no muscle gene is enabled unless             *)
(* bodyA # bodyB and both endpoints are enabled nodes of the primary group.*)
(* Does not hold of the code: mutate() does not re-run _checkActive.       *)
(***************************************************************************)
C2_FlagsFreshAfterMutate ==
    op.name = "mutate" =>
        LET g == bench["child"]
            primary == primaryComponent(heap, g)
        IN  /\ enabledNodes(heap, g) = primary
            /\ \A k \in 1 .. Len(g.muscleGenotypes) :
                  LET m == heap[g.muscleGenotypes[k]]
                  IN  m.isEnabled <=> (m.bodyA # m.bodyB /\ m.bodyA \in primary
                                        /\ m.bodyB \in primary)

(***************************************************************************)
(* C6: a genome returned by copy() or crossover() shares no gene object    *)
(* with its source genome(s): no two genomes held by the caller have a     *)
(* gene object in common, and mutating the new genome changes no field of  *)
(* any gene of the parent genomes.                                         *)
(***************************************************************************)
geneRefs(g) ==
    {g.nodeGenotypes[k] : k \in 1 .. Len(g.nodeGenotypes)}
    \cup {g.muscleGenotypes[k] : k \in 1 .. Len(g.muscleGenotypes)}

noSharedGenes(b) ==
    /\ \A s, t \in Slots : s # t => geneRefs(b[s]) \cap geneRefs(b[t]) = {}
    /\ \A s \in Slots : Cardinality(geneRefs(b[s])) = 2 * nodeCount(b[s])

C6_CopiesAreIndependent ==
    [][/\ noSharedGenes(bench')
       /\ op'.name = "mutate" =>
             \A s \in Parents : genes(heap', bench'[s]) = genes(heap, bench[s])]_vars

\* A mutation changed the child while its source parent is still held.
C6_Witness ==
    /\ op.name = "mutate"
    /\ bench[op.a] # NoGenome
    /\ \E k \in 1 .. nodeCount(bench["child"]) :
          heap[bench["child"].nodeGenotypes[k]].size # heap[bench[op.a].nodeGenotypes[k]].size

(***************************************************************************)
(* C7: for two parents of equal shape and crossover index c, the child of  *)
(* self.crossover(other) has at every index i the node gene values and the *)
(* muscle gene values (endpoints and parameters) of self if i < c and of   *)
(* other otherwise.                                                        *)
(* Does not hold of the code for the stored endpoints of a parent muscle   *)
(* with bodyA > bodyB (see C22): the copy re-sorts them.                   *)
(***************************************************************************)
nodeValues(n) == [size |-> n.size, friction |-> n.friction, frictionStatic |-> n.frictionStatic]

muscleValues(m) ==
    [bodyA |-> m.bodyA, bodyB |-> m.bodyB, stiffness |-> m.stiffness,
     contractedLength |-> m.contractedLength, extendedLength |-> m.extendedLength,
     contractDelay |-> m.contractDelay, extendDelay |-> m.extendDelay]

C7_CrossoverTakesParentGenes ==
    op.name = "crossover" =>
        \A i \in nodeIds(bench["child"]) :
            LET from == IF i < op.c THEN bench[op.a] ELSE bench[op.b]
            IN  /\ nodeValues(heap[bench["child"].nodeGenotypes[i + 1]])
                     = nodeValues(heap[from.nodeGenotypes[i + 1]])
                /\ muscleValues(heap[bench["child"].muscleGenotypes[i + 1]])
                     = muscleValues(heap[from.muscleGenotypes[i + 1]])

(***************************************************************************)
(* Notions used by the properties of the genetic algorithm.                *)
(***************************************************************************)
\* The last call ran nextGeneration().
nextGenerationRan == op.name = "reset" \/ (op.name = "update" /\ op.transition)

\* The parameter values and endpoints of the genes of a genome.
genomeValues(gs) ==
    [nodeGenotypes   |-> [k \in 1 .. Len(gs.nodeGenotypes) |-> nodeValues(gs.nodeGenotypes[k])],
     muscleGenotypes |-> [k \in 1 .. Len(gs.muscleGenotypes) |->
                            muscleValues(gs.muscleGenotypes[k])]]

\* What a phenotype takes from its genome: everything but the positions and
\* the muscles' state.
built(creature) ==
    [nodes   |-> [k \in 1 .. Len(creature.nodes) |->
                    [circleRadius |-> creature.nodes[k].circleRadius,
                     friction     |-> creature.nodes[k].friction]],
     muscles |-> [k \in 1 .. Len(creature.muscles) |->
                    [bodyA            |-> creature.muscles[k].bodyA,
                     bodyB            |-> creature.muscles[k].bodyB,
                     stiffness        |-> creature.muscles[k].stiffness,
                     contractedLength |-> creature.muscles[k].contractedLength,
                     extendedLength   |-> creature.muscles[k].extendedLength,
                     contractDelay    |-> creature.muscles[k].contractDelay,
                     extendDelay      |-> creature.muscles[k].extendDelay]]]

\* Index i is ranked before index j: higher fitness, the lower index on a tie.
rankedBefore(fitness, i, j) ==
    \/ fitness[i + 1] > fitness[j + 1]
    \/ fitness[i + 1] = fitness[j + 1] /\ i < j

\* topN lists the `size` best-ranked indices of fitness, best first.
holdsBest(topN, fitness, size) ==
    /\ Len(topN) = size
    /\ \A k \in 1 .. Len(topN) - 1 : rankedBefore(fitness, topN[k], topN[k + 1])
    /\ \A k \in 1 .. Len(topN) : \A j \in 0 .. Len(fitness) - 1 :
          (\A l \in 1 .. Len(topN) : topN[l] # j) => rankedBefore(fitness, topN[k], j)

(***************************************************************************)
(* C3: after nextGeneration(), for every k < |topN| the k-th member of the *)
(* new population has the gene parameter values and endpoints of the old   *)
(* population[topN[k]] (it is an unmutated copy), and the genomes carried   *)
(* over are those with the highest fitness values of the generation that   *)
(* ended.                                                                  *)
(* Does not hold of the code after a reset() that follows an evaluated     *)
(* generation: topN is the stale list of C34, it indexes random genomes    *)
(* that were never scored, whose last muscle has bodyA > bodyB (C22).      *)
(***************************************************************************)
C3_ElitesCarriedUnchanged ==
    nextGenerationRan =>
        LET topN == ga.generationResults.topN
        IN  /\ \A k \in 1 .. Len(topN) :
                  genomeValues(genes(heap, ga.population[k]))
                      = genomeValues(op.parents[topN[k] + 1])
            /\ Len(topN) > 0 =>
                  /\ Len(op.parentFitness) = Len(op.parents)
                  /\ \A k \in 1 .. Len(topN) : \A j \in 0 .. Len(op.parentFitness) - 1 :
                        (\A l \in 1 .. Len(topN) : topN[l] # j)
                            => op.parentFitness[j + 1] <= op.parentFitness[topN[k] + 1]

(***************************************************************************)
(* C4: for an integer elitism count N >= 1, after evaluate() topN holds    *)
(* the indices of the min(N, population size) highest fitness values in    *)
(* non-increasing fitness order; among equal fitness values the lower      *)
(* index is placed first and is the one retained on overflow.              *)
(***************************************************************************)
C4_TopNHoldsHighest ==
    op.name = "evaluate" =>
        holdsBest(op.returned.results.topN, op.returned.results.fitness,
                  MathMin(ga.elitismRatio \div 10, Len(ga.population)))

\* Four creatures scored, two kept, a tie between a kept and a dropped index.
C4_Witness ==
    /\ op.name = "evaluate"
    /\ ga.elitismRatio = 2 * 10
    /\ Len(op.returned.results.fitness) = 4
    /\ op.returned.results.topN = <<3, 0>>
    /\ op.returned.results.fitness = <<1, 0, 1, 2>>

(***************************************************************************)
(* C5: after every nextGeneration() the population holds exactly           *)
(* populationSize genomes, creatures holds exactly populationSize          *)
(* creatures, and creature i is the phenotype built from population[i].    *)
(***************************************************************************)
C5_PopulationAndCreaturesPaired ==
    ga.generation >= 1 =>
        /\ Len(ga.population) = ga.populationSize
        /\ Len(ga.creatures) = ga.populationSize
        /\ \A i \in 1 .. Len(ga.creatures) :
              built(ga.creatures[i])
                  = built(Creature_new(heap, ga.population[i], ga.startingPosition))

\* The third generation, bred and carried over, with a mutated genome in it.
C5_Witness ==
    /\ op.name = "update" /\ op.transition
    /\ ga.generation = 3
    /\ op.hits >= 1
    /\ Len(ga.creatures) = 2
    /\ built(ga.creatures[1]) # built(ga.creatures[2])

(***************************************************************************)
(* C8: after reset() the population consists of the populationSize         *)
(* randomly generated genomes, with their phenotypes instantiated, and the *)
(* generation counter is 0.                                                *)
(* Does not hold of the code: reset() ends in nextGeneration(), which      *)
(* replaces the random genomes by their offspring and counts a generation. *)
(***************************************************************************)
C8_ResetKeepsRandomGenomes ==
    op.name = "reset" =>
        /\ ga.generation = 0
        /\ populationGenes(heap, ga.population) = op.random
        /\ Len(ga.creatures) = ga.populationSize

(***************************************************************************)
(* C9: update(timestamp) ends the current generation only when             *)
(* timestamp - currEvaluationStartTime >= evaluationTime, makes at most    *)
(* one generation transition per call and sets currEvaluationStartTime to  *)
(* that timestamp; consecutive transitions are at least evaluationTime     *)
(* apart.                                                                  *)
(***************************************************************************)
C9_TransitionOnlyAfterEvaluationTime ==
    [][op'.name = "update" =>
          /\ op'.transition <=> ga'.generation # ga.generation
          /\ op'.transition =>
                /\ op'.timestamp - ga.currEvaluationStartTime >= ga.evaluationTime
                /\ ga'.generation = ga.generation + 1
                /\ ga'.currEvaluationStartTime = op'.timestamp
                /\ op.lastTransition >= 0 =>
                      op'.timestamp - op.lastTransition >= ga.evaluationTime
          /\ ~op'.transition =>
                /\ ga'.currEvaluationStartTime = ga.currEvaluationStartTime
                /\ populationGenes(heap', ga'.population) = populationGenes(heap, ga.population)
                /\ ga'.generationResults = ga.generationResults]_vars

\* A second transition, one evaluation time after the first.
C9_Witness ==
    /\ op.name = "update" /\ op.transition
    /\ ga.generation = 3
    /\ ga.currEvaluationStartTime = 2000

(***************************************************************************)
(* C10: at a generation transition update() stores the generation results, *)
(* then invokes onGenerationEnd (population and generation counter still   *)
(* describe the generation that ended), then replaces the population and   *)
(* increments the generation counter, then invokes onGenerationStart; each *)
(* installed hook is invoked exactly once per transition, in that order,   *)
(* and no hook is invoked by an update() that makes no transition.         *)
(***************************************************************************)
C10_HooksOncePerTransitionInOrder ==
    op.name = "update" =>
        LET ended == [command    |-> "FINISHED_GENERATION",
                      generation |-> ga.generation - 1,
                      population |-> op.parents,
                      results    |-> ga.generationResults]
            started == [command    |-> "STARTED_GENERATION",
                        generation |-> ga.generation,
                        population |-> populationGenes(heap, ga.population)]
        IN  op.posted =
                IF op.transition
                THEN (IF ga.onGenerationEnd # "null" THEN <<ended>> ELSE <<>>)
                     \o (IF ga.onGenerationStart # "null" THEN <<started>> ELSE <<>>)
                ELSE <<>>

\* Both hooks ran at a transition that changed the population.
C10_Witness ==
    /\ op.name = "update" /\ op.transition
    /\ Len(op.posted) = 2
    /\ op.posted[1].population # op.posted[2].population
    /\ op.posted[1].results.topN # <<>>


(***************************************************************************)
(* C11: select() draws one candidate index and then tournamentSize further *)
(* candidate indices, all in [0, populationSize), and returns the          *)
(* earliest-drawn candidate whose fitness is the maximum among the drawn   *)
(* candidates (the running winner is replaced only by a strictly greater   *)
(* fitness).                                                               *)
(* Does not hold of the code for a tournamentSize supplied as a fraction:  *)
(* the constructor keeps the fraction (C12) and the loop of select() then  *)
(* runs once, with tournamentSize = 0.5 it draws one further candidate.    *)
(***************************************************************************)
\* Candidate j beats candidate k: its fitness is strictly greater.
beats(g, j, k) == greaterThan(fitnessAt(g, j), fitnessAt(g, k))

C11_SelectReturnsEarliestBest ==
    op.name = "select" =>
        /\ (Len(op.draws) - 1) * 10 = ga.tournamentSize
        /\ \A k \in 1 .. Len(op.draws) : op.draws[k] \in 0 .. ga.populationSize - 1
        /\ \E k \in 1 .. Len(op.draws) :
              /\ op.returned = op.draws[k]
              /\ \A j \in 1 .. Len(op.draws) : ~beats(ga, op.draws[j], op.draws[k])
              /\ \A j \in 1 .. k - 1 :
                    \E l \in 1 .. Len(op.draws) : beats(ga, op.draws[l], op.draws[j])

(***************************************************************************)
(* C12: when elitismRatio or tournamentSize is supplied to the constructor *)
(* as a fraction f in [0, 1) the resolved count is                         *)
(* floor(populationSize * f), and when supplied as an absolute count >= 1  *)
(* it is min(populationSize, count).                                       *)
(* Does not hold of the code: 0 <= f < 1 compares a boolean with 1 and is  *)
(* false for every f >= 0, so a fraction is kept as min(populationSize, f).*)
(***************************************************************************)
\* The count the constructor is to resolve v (in tenths) to, in tenths.
resolvedAs(populationSize, v) ==
    IF v < 10 THEN ((populationSize * v) \div 10) * 10
    ELSE MathMin(populationSize * 10, v)

C12_CountsResolved ==
    op.name = "new" =>
        /\ ga.elitismRatio = resolvedAs(op.options.populationSize, op.options.elitismRatio)
        /\ ga.tournamentSize = resolvedAs(op.options.populationSize, op.options.tournamentSize)

(***************************************************************************)
(* C20: constructing the manager with an elitism count greater than or     *)
(* equal to the population size, or with a non-positive population size,   *)
(* is rejected as a configuration error at construction time and is not    *)
(* silently clamped.                                                       *)
(* Does not hold of the code: the constructor validates nothing, it caps   *)
(* the elitism count with Math.min and returns the instance.               *)
(***************************************************************************)
invalidOptions(options) ==
    \/ options.populationSize <= 0
    \/ options.elitismRatio >= 10 /\ options.elitismRatio >= options.populationSize * 10

C20_InvalidOptionsRejected ==
    (op.name = "new" /\ invalidOptions(op.options)) => op.threw

(***************************************************************************)
(* Notions used by the properties of evaluate().                           *)
(***************************************************************************)
setMax(S) == CHOOSE x \in S : \A y \in S : x >= y

\* The displacement of a creature: the largest x coordinate of its bodies.
displacementOf(creature) ==
    setMax({creature.nodes[k].position : k \in 1 .. Len(creature.nodes)})

displacements == [i \in 1 .. Len(ga.creatures) |-> displacementOf(ga.creatures[i])]

RECURSIVE sumOf(_, _)
sumOf(xs, k) == IF k > Len(xs) THEN 0 ELSE xs[k] + sumOf(xs, k + 1)

\* The first index (0-based) of xs holding the value v.
firstIndexOf(xs, v) == setMin({k \in 1 .. Len(xs) : xs[k] = v}) - 1

\* The quotient q is the number num / den.
isQuotient(q, num, den) == ~q.nan /\ q.num * den = num * q.den

(***************************************************************************)
(* C13: evaluate() returns minFitness and maxFitness equal to the minimum  *)
(* and maximum of the creatures' displacements, argmin and argmax equal to *)
(* the first index attaining them, sumFitness equal to their sum and       *)
(* meanFitness equal to the sum divided by the population size.            *)
(***************************************************************************)
C13_EvaluateStatistics ==
    op.name = "evaluate" =>
        LET r == op.returned.results
            xs == displacements
            values == {xs[k] : k \in 1 .. Len(xs)}
        IN  /\ r.fitness = xs
            /\ r.minFitness = setMin(values)
            /\ r.maxFitness = setMax(values)
            /\ r.argmin = firstIndexOf(xs, setMin(values))
            /\ r.argmax = firstIndexOf(xs, setMax(values))
            /\ r.sumFitness = sumOf(xs, 1)
            /\ isQuotient(r.meanFitness, sumOf(xs, 1), Len(ga.population))

\* Four creatures, the minimum attained twice: the first index attaining it
\* is reported, and the mean is 12 / 4.
C13_Witness ==
    /\ op.name = "evaluate"
    /\ op.returned.results.fitness = <<2, 0, 10, 0>>
    /\ op.returned.results.argmin = 1
    /\ op.returned.results.argmax = 2
    /\ isQuotient(op.returned.results.meanFitness, 3, 1)

(***************************************************************************)
(* C14: evaluate() returns medianFitness equal to the statistical median   *)
(* of the fitness values: the middle element of the numerically ordered    *)
(* values for an odd population size and the mean of the two middle        *)
(* elements for an even size, for every fitness vector (including values   *)
(* with different numbers of digits and negative values).                  *)
(* Does not hold of the code: [...fitnessScores].sort() has no comparator  *)
(* and orders the numbers by their string conversions.                     *)
(***************************************************************************)
\* xs in non-decreasing numerical order.
RECURSIVE numericInsert(_, _, _)
numericInsert(sorted, k, x) ==
    IF k > Len(sorted) THEN Append(sorted, x)
    ELSE IF x < sorted[k]
         THEN SubSeq(sorted, 1, k - 1) \o <<x>> \o SubSeq(sorted, k, Len(sorted))
         ELSE numericInsert(sorted, k + 1, x)

RECURSIVE numericSort(_, _, _)
numericSort(xs, k, sorted) ==
    IF k > Len(xs) THEN sorted
    ELSE numericSort(xs, k + 1, numericInsert(sorted, 1, xs[k]))

C14_MedianIsStatistical ==
    op.name = "evaluate" =>
        LET ordered == numericSort(displacements, 1, <<>>)
            n == Len(ordered)
        IN  IF n % 2 = 1
            THEN isQuotient(op.returned.results.medianFitness, ordered[n \div 2 + 1], 1)
            ELSE isQuotient(op.returned.results.medianFitness,
                            ordered[n \div 2] + ordered[n \div 2 + 1], 2)

(***************************************************************************)
(* C15: in nextGeneration() every phenotype of the previous generation is  *)
(* removed from the world before any phenotype of the new generation is    *)
(* added, so after any number of generations (and resets) the world        *)
(* contains, besides the ground, the bodies and muscles of the creatures   *)
(* of the current generation only.                                         *)
(***************************************************************************)
\* The bodies and muscles of the creatures, in the order they were added.
RECURSIVE phenomes(_, _)
phenomes(creatures, k) ==
    IF k > Len(creatures) THEN <<>>
    ELSE Creature_phenome(creatures[k], creatures[k].id) \o phenomes(creatures, k + 1)

C15_WorldHoldsCurrentGeneration ==
    /\ ga.world = <<ground>> \o phenomes(ga.creatures, 1)
    /\ \A k \in 1 .. Len(ga.creatures) : ga.creatures[k].id.born = ga.generation

\* A second generation has replaced the first one in the world; its creatures
\* have muscles.
C15_Witness ==
    /\ op.name = "update" /\ op.transition
    /\ ga.generation = 2
    /\ Len(ga.world) > 1 + Len(ga.creatures)

(***************************************************************************)
(* C17: the fitness read for a creature at the end of the evaluation       *)
(* window is the maximum x coordinate reached by any of its active node    *)
(* bodies at any time since it was spawned; a creature that moved forward  *)
(* and then back is still scored by its furthest position.                 *)
(* Does not hold of the code: getDisplacement() reads the positions the    *)
(* bodies have when evaluate() runs, no maximum is recorded.               *)
(***************************************************************************)
C17_FitnessIsFurthestReached ==
    [][(op'.name = "update" /\ op'.transition)
          => ga'.generationResults.fitness = op.furthest]_vars

(***************************************************************************)
(* C16: in Creature.update(timestamp) a muscle leaves its current state    *)
(* only if at least the delay governing that state has elapsed since its   *)
(* last toggle (extendDelay to leave Contracted, contractDelay to leave    *)
(* Extended); a negative governing delay means the muscle never leaves     *)
(* that state; a muscle toggles at most once per update call and strictly  *)
(* alternates between Contracted and Extended.  The time of the last       *)
(* toggle is the one the creature records, 0 for a muscle that has not     *)
(* toggled.                                                                *)
(***************************************************************************)
\* The delay governing the state muscle m is in.
governingDelay(m) == IF m.isExtended THEN m.contractDelay ELSE m.extendDelay

\* Muscle m after one toggle.
toggled(m) ==
    [m EXCEPT !.isExtended = ~m.isExtended,
              !.length = IF m.isExtended THEN m.contractedLength ELSE m.extendedLength]

C16_MuscleTogglesAfterDelay ==
    [][op'.name = "creature.update" =>
          \A k \in 1 .. Len(op.creature.muscles) :
              LET m == op.creature.muscles[k]
                  last == op.creature.muscleLastUpdates[k]
              IN  \/ /\ op'.creature.muscles[k] = m
                     /\ op'.creature.muscleLastUpdates[k] = last
                  \/ /\ op'.creature.muscles[k] = toggled(m)
                     /\ op'.creature.muscleLastUpdates[k] = op'.timestamp
                     /\ governingDelay(m) >= 0
                     /\ op'.timestamp - last >= governingDelay(m)]_vars

\* A muscle that extended and has contracted again, 500 ms later.
C16_Witness ==
    /\ op.name = "creature.update"
    /\ Len(op.creature.muscles) = 1
    /\ ~op.creature.muscles[1].isExtended
    /\ op.creature.muscles[1].contractDelay = 500
    /\ op.creature.muscleLastUpdates[1] = 1500

(***************************************************************************)
(* C18: building a Creature from a genome reports an error for a muscle    *)
(* exactly when that muscle references a node index that is disabled or    *)
(* out of range; it never reports an error for an enabled muscle whose two *)
(* endpoint node genes are both enabled and in range.                      *)
(* Does not hold of the code: the constructor compares the endpoints with  *)
(* the number of enabled nodes, not with the nodes' flags.                 *)
(***************************************************************************)
\* Node index i of genome g is in range and its gene is enabled.
enabledNode(h, g, i) ==
    i \in 0 .. Len(g.nodeGenotypes) - 1 /\ h[g.nodeGenotypes[i + 1]].isEnabled

\* The enabled muscle genes of g, in order.
enabledMuscles(h, g) == filterEnabled(h, g.muscleGenotypes, 1)

\* The muscle gene references a disabled or out-of-range node.
danglingMuscle(h, g, ref) ==
    ~enabledNode(h, g, h[ref].bodyA) \/ ~enabledNode(h, g, h[ref].bodyB)

C18_ErrorExactlyForDanglingMuscle ==
    op.name = "new Creature" =>
        \A k \in 1 .. Len(op.errors) :
            op.errors[k] <=> danglingMuscle(heap, bench["self"], enabledMuscles(heap, bench["self"])[k])

(***************************************************************************)
(* C19: an individual whose phenotype construction hits a structural       *)
(* integrity fault (an enabled muscle referencing a disabled or            *)
(* out-of-range node) is scored with fitness zero in that generation, and  *)
(* the generation still completes for all other individuals.               *)
(* Does not hold of the code: the creature is built with the muscle        *)
(* attached to a missing body and is scored by its displacement like any   *)
(* other.                                                                  *)
(***************************************************************************)
faulty(h, g) ==
    \E k \in 1 .. Len(enabledMuscles(h, g)) : danglingMuscle(h, g, enabledMuscles(h, g)[k])

C19_FaultyIndividualScoresZero ==
    (op.name = "getDisplacement" /\ faulty(heap, bench["self"])) => op.fitness = 0

(***************************************************************************)
(* C21: crossover() / breed() applied to two genomes whose node-gene or    *)
(* muscle-gene sequence lengths differ is rejected and returns no child    *)
(* genome, whichever of the two is the longer one.                         *)
(* Does not hold of the code: the lengths are never compared; a call on    *)
(* the shorter genome returns a child whenever the genes it takes from the *)
(* longer one have their endpoints within the shorter one's node indices.  *)
(***************************************************************************)
shapesDiffer(g1, g2) ==
    \/ Len(g1.nodeGenotypes) # Len(g2.nodeGenotypes)
    \/ Len(g1.muscleGenotypes) # Len(g2.muscleGenotypes)

C21_MismatchedParentsRejected ==
    (op.name \in {"crossover", "breed"} /\ shapesDiffer(bench[op.a], bench[op.b]))
        => (op.threw /\ bench["child"] = NoGenome)

(***************************************************************************)
(* C26: every muscle gene of every genome reachable through createRandom,  *)
(* copy, crossover and mutate has both endpoints among the node indices of *)
(* the genome that owns it: 0 <= bodyA, bodyB < nodeCount.                 *)
(* Does not hold of the code for the child of two genomes of different     *)
(* lengths (C21): it can hold a disabled muscle of the longer parent.      *)
(***************************************************************************)
endpointsValid(h, g) ==
    \A k \in 1 .. Len(g.muscleGenotypes) :
        /\ h[g.muscleGenotypes[k]].bodyA \in nodeIds(g)
        /\ h[g.muscleGenotypes[k]].bodyB \in nodeIds(g)

C26_EndpointsStayValid == \A s \in Slots : endpointsValid(heap, bench[s])

(***************************************************************************)
(* C25 as stated: one call of a gene's mutate() changes at most one stored *)
(* field of that gene (none when the uniform draw is not below pMutate)    *)
(* and leaves every other gene untouched, for node genes and for muscle    *)
(* genes, redraws of bodyA or bodyB included.                              *)
(* Does not hold of muscle genes: after the redraw mutate() stores the     *)
(* endpoints back in ascending order and recomputes isEnabled.             *)
(***************************************************************************)
geneMutateCalls == {"NodeGenotype.mutate", "MuscleGenotype.mutate"}

changedFields(before, after) == {f \in DOMAIN before : after[f] # before[f]}

\* The call drew p below pMutate.
hit(call) ==
    IF call.name = "NodeGenotype.mutate" THEN call.draw.p < NodeGenotype_pMutate
    ELSE call.draw.p < MuscleGenotype_pMutate

C25_OneStoredFieldPerMutate ==
    [][op'.name \in geneMutateCalls =>
          /\ Len(heap') = Len(heap)
          /\ \A r \in 1 .. Len(heap) : r # op'.ref => heap'[r] = heap[r]
          /\ Cardinality(changedFields(heap[op'.ref], heap'[op'.ref])) <= 1
          /\ ~hit(op') => heap'[op'.ref] = heap[op'.ref]]_vars

(***************************************************************************)
(* C25, amended: one call of a gene's mutate() redraws at most one field   *)
(* (none when the uniform draw is not below pMutate) and leaves every      *)
(* other gene untouched.  In a node gene at most one stored field changes. *)
(* In a muscle gene at most one of the five parameter fields changes, and  *)
(* then the pair of nodes the muscle joins is kept; when bodyA or bodyB is *)
(* redrawn the other endpoint is kept; after every hit they are stored in  *)
(* ascending order and isEnabled is bodyA # bodyB, so that bodyA, bodyB    *)
(* and isEnabled may change together.                                      *)
(***************************************************************************)
parameterFields ==
    {"stiffness", "contractedLength", "extendedLength", "contractDelay", "extendDelay"}

ascending(m) == <<MathMin(m.bodyA, m.bodyB), MathMax(m.bodyA, m.bodyB)>>

C25_OneFieldRedrawnPerMutate ==
    [][op'.name \in geneMutateCalls =>
          LET before == heap[op'.ref]
              after == heap'[op'.ref]
              changed == changedFields(before, after)
          IN  /\ Len(heap') = Len(heap)
              /\ \A r \in 1 .. Len(heap) : r # op'.ref => heap'[r] = heap[r]
              /\ ~hit(op') => changed = {}
              /\ op'.name = "NodeGenotype.mutate" => Cardinality(changed) <= 1
              /\ op'.name = "MuscleGenotype.mutate" =>
                    /\ Cardinality(changed \cap parameterFields) <= 1
                    /\ changed \cap parameterFields # {} => ascending(after) = ascending(before)
                    /\ {after.bodyA, after.bodyB} \cap {before.bodyA, before.bodyB} # {}
                    /\ hit(op') => /\ <<after.bodyA, after.bodyB>> = ascending(after)
                                   /\ after.isEnabled = (after.bodyA # after.bodyB)]_vars

\* A redraw of one endpoint of a muscle gene stored in ascending order
\* changed both stored endpoints.
C25_Witness ==
    /\ op.name = "MuscleGenotype.mutate"
    /\ op.draw.field \in {0, 1}
    /\ op.before.bodyA < op.before.bodyB
    /\ heap[op.ref].bodyA # op.before.bodyA
    /\ heap[op.ref].bodyB # op.before.bodyB
    /\ heap[op.ref].isEnabled

(***************************************************************************)
(* C22: every MuscleGenotype, after construction (the muscles of a genome  *)
(* returned by CreatureGenome.createRandom included) or mutation, has      *)
(* bodyA <= bodyB.                                                         *)
(* Does not hold of the code: createRandom assigns bodyA = i and           *)
(* bodyB = (i + 1) % nNodes after the constructor has sorted the endpoints.*)
(***************************************************************************)
musclesOf(h, g) == {h[g.muscleGenotypes[k]] : k \in 1 .. Len(g.muscleGenotypes)}

C22_EndpointsAscending ==
    \A s \in Slots : \A m \in musclesOf(heap, bench[s]) : m.bodyA <= m.bodyB

(***************************************************************************)
(* C23: in every state, after construction, random creation, copy,         *)
(* crossover, mutation and connectivity analysis, every MuscleGenotype     *)
(* that is enabled has bodyA # bodyB.                                      *)
(***************************************************************************)
C23_EnabledMuscleJoinsDistinctNodes ==
    \A s \in Slots : \A m \in musclesOf(heap, bench[s]) : m.isEnabled => m.bodyA # m.bodyB

\* A mutation made the two endpoints of a muscle of a genome of two or more
\* nodes equal, and the muscle is disabled.
C23_Witness ==
    /\ op.name = "mutate"
    /\ nodeCount(bench["child"]) >= 2
    /\ \E m \in musclesOf(heap, bench["child"]) : m.bodyA = m.bodyB /\ ~m.isEnabled
    /\ \E m \in musclesOf(heap, bench["child"]) : m.bodyA # m.bodyB /\ m.isEnabled

(***************************************************************************)
(* C24: after construction of a CreatureGenome with at least one node the  *)
(* enabled nodes are exactly the members of one connected component of the *)
(* muscle graph and every other node is disabled; with no structural edge  *)
(* only node 0 is enabled; for the muscles {(0,1),(1,2)} on 4 nodes the    *)
(* nodes 0, 1, 2 are enabled, node 3 is disabled and both muscles stay     *)
(* enabled.                                                                *)
(* Does not hold of the code for a genome createRandom built from muscles  *)
(* whose constructor drew equal endpoints (C29): their stale isEnabled     *)
(* keeps them out of the adjacency list.                                   *)
(***************************************************************************)
C24_EnabledNodesAreOneComponent ==
    (constructed # NoGenome /\ nodeCount(constructed) >= 1) =>
        /\ enabledNodes(heap, constructed) \in components(heap, constructed)
        /\ muscleEdges(heap, constructed) = {} => enabledNodes(heap, constructed) = {0}
        /\ (nodeCount(constructed) = 4 /\ muscleEdges(heap, constructed) = {{0, 1}, {1, 2}}) =>
              /\ enabledNodes(heap, constructed) = {0, 1, 2}
              /\ \A m \in musclesOf(heap, constructed) : m.bodyA # m.bodyB => m.isEnabled

(***************************************************************************)
(* C27: CreatureGenome.createRandom(n) returns a genome with exactly n     *)
(* node genes and exactly n muscle genes in which muscle i joins node i    *)
(* and node (i + 1) mod n.                                                 *)
(***************************************************************************)
C27_CreateRandomIsClosedCycle ==
    op.name = "createRandom" =>
        /\ Len(bench[op.a].nodeGenotypes) = op.nNodes
        /\ Len(bench[op.a].muscleGenotypes) = op.nNodes
        /\ \A i \in 0 .. op.nNodes - 1 :
              {heap[bench[op.a].muscleGenotypes[i + 1]].bodyA,
               heap[bench[op.a].muscleGenotypes[i + 1]].bodyB} = {i, (i + 1) % op.nNodes}

\* A genome of three or more nodes whose last muscle closes the cycle.
C27_Witness ==
    /\ op.name = "createRandom"
    /\ op.nNodes >= 3
    /\ heap[bench[op.a].muscleGenotypes[op.nNodes]].bodyA = op.nNodes - 1
    /\ heap[bench[op.a].muscleGenotypes[op.nNodes]].bodyB = 0

(***************************************************************************)
(* C28: copy() yields a genome whose node and muscle genes have the same   *)
(* parameter values, the same endpoints and the same isEnabled flags as    *)
(* the source, for any genome that can occur in the population: copying    *)
(* never changes which genes are active.                                   *)
(* Does not hold of the code: copy() recomputes every flag, and the flags  *)
(* of the source are stale after createRandom (C29) and after mutate (C2). *)
(***************************************************************************)
C28_CopyKeepsValuesAndFlags ==
    op.name = "copy" =>
        \A i \in nodeIds(bench["child"]) :
            LET node == heap[bench["child"].nodeGenotypes[i + 1]]
                muscle == heap[bench["child"].muscleGenotypes[i + 1]]
                sourceNode == heap[bench[op.a].nodeGenotypes[i + 1]]
                sourceMuscle == heap[bench[op.a].muscleGenotypes[i + 1]]
            IN  /\ nodeValues(node) = nodeValues(sourceNode)
                /\ node.isEnabled = sourceNode.isEnabled
                /\ [muscleValues(muscle) EXCEPT !.bodyA = 0, !.bodyB = 0]
                     = [muscleValues(sourceMuscle) EXCEPT !.bodyA = 0, !.bodyB = 0]
                /\ {muscle.bodyA, muscle.bodyB} = {sourceMuscle.bodyA, sourceMuscle.bodyB}
                /\ muscle.isEnabled = sourceMuscle.isEnabled

(***************************************************************************)
(* C29: in a genome returned by CreatureGenome.createRandom(n) with n >= 2 *)
(* every muscle gene and every node gene is enabled, whatever endpoints    *)
(* MuscleGenotype.createRandom drew before they were overwritten.          *)
(* Does not hold of the code: isEnabled is computed by the constructor     *)
(* from the drawn endpoints and not again after they are overwritten.      *)
(***************************************************************************)
C29_RandomGenomeFullyEnabled ==
    (op.name = "createRandom" /\ op.nNodes >= 2) =>
        /\ \A m \in musclesOf(heap, bench[op.a]) : m.isEnabled
        /\ enabledNodes(heap, bench[op.a]) = nodeIds(bench[op.a])

(***************************************************************************)
(* C30: after evaluate() on a non-empty population topN holds exactly      *)
(* min(N, population size) indices, N being the resolved elitism count,    *)
(* for every N >= 0; with N = 0 topN is empty, so that nextGeneration(),   *)
(* which carries over one genome per entry of topN, carries over none.     *)
(* Does not hold of the code for N = 0: updateTopN pushes the first index  *)
(* onto the empty list without looking at the elitism count.               *)
(***************************************************************************)
C30_TopNHoldsElitismCount ==
    (op.name = "update" /\ op.transition /\ Len(op.parents) > 0) =>
        Len(ga.generationResults.topN) * 10 = MathMin(ga.elitismRatio, Len(op.parents) * 10)

(***************************************************************************)
(* C31: when a Creature is built from a genome, each enabled muscle gene   *)
(* is attached to exactly the two bodies created from the node genes at    *)
(* its bodyA and bodyB indices of the genome (never to a body of another   *)
(* node gene and never to a missing body).                                 *)
(* Does not hold of the code: the constructor indexes this.nodes, the      *)
(* list of the bodies of the enabled nodes only, with the genome indices.  *)
(***************************************************************************)
\* The node gene whose body is this.nodes[index] of a creature built from g.
bodyGene(h, g, index) ==
    IF index = undefined THEN undefined
    ELSE filterEnabled(h, g.nodeGenotypes, 1)[index + 1]

\* The node gene at index i of genome g (undefined past the end).
nodeGene(g, i) ==
    IF i \in 0 .. Len(g.nodeGenotypes) - 1 THEN g.nodeGenotypes[i + 1] ELSE undefined

\* Muscle k of the creature joins the bodies of the node genes its gene names.
attachedAsNamed(h, g, creature, k) ==
    Let(h[enabledMuscles(h, g)[k]], LAMBDA gene :
        /\ creature.muscles[k].bodyA # undefined
        /\ creature.muscles[k].bodyB # undefined
        /\ bodyGene(h, g, creature.muscles[k].bodyA) = nodeGene(g, gene.bodyA)
        /\ bodyGene(h, g, creature.muscles[k].bodyB) = nodeGene(g, gene.bodyB))

C31_MusclesJoinTheirNodeBodies ==
    op.name = "new Creature" =>
        \A k \in 1 .. Len(op.creature.muscles) :
            attachedAsNamed(heap, bench["self"], op.creature, k)

(***************************************************************************)
(* C32: in every execution, a manager that is only constructed and then    *)
(* driven by update() included, whenever update() triggers evaluate()      *)
(* there is at least one creature, so that argmin and argmax are indices   *)
(* into the fitness list and the mean is well-defined.                     *)
(* Does not hold of the code: only reset() creates creatures, and update() *)
(* evaluates the empty list once evaluationTime has passed.                *)
(***************************************************************************)
\* The step is an update(timestamp) call that takes the evaluate() branch.
updateEvaluates ==
    /\ op'.name = "update"
    /\ op'.calls = op.calls + 1
    /\ generationEnded(ga, op'.timestamp)

C32_EvaluateHasCreatures ==
    [][updateEvaluates =>
          /\ Len(ga.creatures) >= 1
          /\ ~op'.threw
          /\ GeneticAlgorithm_evaluate(ga).results.argmin \in 0 .. Len(ga.creatures) - 1
          /\ GeneticAlgorithm_evaluate(ga).results.argmax \in 0 .. Len(ga.creatures) - 1
          /\ ~GeneticAlgorithm_evaluate(ga).results.meanFitness.nan]_vars

(***************************************************************************)
(* C33: every onGenerationEnd invocation for a generation is preceded by   *)
(* an onGenerationStart invocation for that same generation, the first     *)
(* generation, which reset() creates, included.                            *)
(* Does not hold of the code: reset() calls nextGeneration() and no hook,  *)
(* so generation 1 ends without having been announced.                     *)
(***************************************************************************)
C33_EndPrecededByStart ==
    [][generationsPosted(op'.posted, "FINISHED_GENERATION") \subseteq op.started]_vars

(***************************************************************************)
(* C34: reset() discards the state of earlier generations: the population  *)
(* produced by a reset() that follows one or more evaluated generations    *)
(* does not depend on the generationResults (topN, fitness) of those       *)
(* generations: no genome is carried over as an elite and no parent is     *)
(* preferred because of pre-reset fitness.                                 *)
(* Does not hold of the code: reset() does not clear generationResults,    *)
(* and its nextGeneration() call reads the topN and the fitness of the     *)
(* generation evaluated before the reset.                                  *)
(***************************************************************************)
\* The step is a reset() call.
resetCalled == op'.name = "reset" /\ op'.calls = op.calls + 1

\* The genomes the elitism loop of nextGeneration() copies when reset() calls
\* it with the random population s = [h, g].
elitesOf(s) == eliteLoop(s.h, s.g, 1, <<>>).r

\* select() on g returns its first draw whatever the tournament draws are.
selectUnbiased(g) ==
    \A draws \in [1 .. tournamentRounds(g) + 1 -> randomInt(0, g.populationSize)] :
        GeneticAlgorithm_select(g, draws) = draws[1]

C34_ResetDiscardsResults ==
    [][resetCalled =>
          /\ \A random \in resetRandomDraws(ga) :
                elitesOf(resetPopulation(heap, ga, random)) = <<>>
          /\ selectUnbiased(ga)]_vars

(***************************************************************************)
(* C35: every genome that ever enters the population has exactly           *)
(* maxGenotypesPerCreature node genes and the same number of muscle genes, *)
(* so every pair of parents nextGeneration() passes to breed() has         *)
(* matching shape, across any number of generations.                       *)
(***************************************************************************)
\* Genome value or reference g has n node genes and n muscle genes.
hasShape(g, n) == Len(g.nodeGenotypes) = n /\ Len(g.muscleGenotypes) = n

C35_PopulationHasOneShape ==
    /\ \A k \in 1 .. Len(ga.population) :
          hasShape(ga.population[k], ga.maxGenotypesPerCreature)
    /\ \A k \in 1 .. Len(op.random) : hasShape(op.random[k], ga.maxGenotypesPerCreature)
    /\ \A i, j \in 1 .. Len(op.parents) : ~shapesDiffer(op.parents[i], op.parents[j])

\* The second transition made by update(): a population bred from a bred
\* population, one of whose genomes was hit by a mutation.
C35_Witness ==
    /\ op.name = "update"
    /\ op.transition
    /\ ga.generation = 3
    /\ op.hits >= 1
    /\ Len(ga.generationResults.topN) < ga.populationSize
    /\ Len(ga.population) = ga.populationSize

(***************************************************************************)
(* C36: every genome with at least one node has at least one enabled node  *)
(* after construction and after any sequence of copy, crossover and        *)
(* mutate, so every instantiated creature has at least one body and its    *)
(* displacement is a finite number (never -Infinity).                      *)
(***************************************************************************)
hasEnabledNode(h, g) ==
    Len(g.nodeGenotypes) >= 1 =>
        \E k \in 1 .. Len(g.nodeGenotypes) : h[g.nodeGenotypes[k]].isEnabled

finite(x) == 0 - Infinity < x /\ x < Infinity

hasBody(creature) ==
    Len(creature.nodes) >= 1 /\ finite(Creature_getDisplacement(creature))

C36_CreatureHasABody ==
    /\ \A b \in Slots : hasEnabledNode(heap, bench[b])
    /\ \A k \in 1 .. Len(ga.population) : hasEnabledNode(heap, ga.population[k])
    /\ \A i \in 1 .. Len(ga.creatures) : hasBody(ga.creatures[i])
    /\ \A i \in 1 .. Len(ga.generationResults.fitness) :
          finite(ga.generationResults.fitness[i])
    /\ op.name \in {"new Creature", "getDisplacement"} => hasBody(op.creature)
    /\ op.name = "getDisplacement" => finite(op.fitness)

\* The creatures of a bred generation were scored, and the next generation
\* holds a genome with a muscle gene a mutation has disabled.
C36_Witness ==
    /\ op.name = "update"
    /\ op.transition
    /\ ga.generation >= 3
    /\ Len(ga.generationResults.fitness) = ga.populationSize
    /\ Len(ga.creatures) = ga.populationSize
    /\ \E k \in 1 .. Len(ga.population) :
       \E j \in 1 .. Len(ga.population[k].muscleGenotypes) :
          ~heap[ga.population[k].muscleGenotypes[j]].isEnabled

(***************************************************************************)
(* C37: for nodeCount >= 1 the child of self.crossover(other) always takes *)
(* the gene at the last index from other (the crossover index is never     *)
(* nodeCount), and with crossover index 0 the child is a gene-for-gene     *)
(* copy of other; the child is never built from self's genes at every      *)
(* index.                                                                  *)
(* The last part does not hold when other is self, the call                *)
(* nextGeneration() makes when select() returns the same index twice.      *)
(***************************************************************************)
\* The values gene.copy() gives the copy of the muscle gene at ref.
copiedMuscleValues(h, ref) ==
    Let(MuscleGenotype_copy(h, ref), LAMBDA copy : muscleValues(copy.h[copy.r]))

\* The child's genes at index i are copies of the genes of `from` at index i.
copiedFrom(h, child, from, i) ==
    /\ nodeValues(h[child.nodeGenotypes[i + 1]]) = nodeValues(h[from.nodeGenotypes[i + 1]])
    /\ muscleValues(h[child.muscleGenotypes[i + 1]])
          = copiedMuscleValues(h, from.muscleGenotypes[i + 1])

\* The genome values other.copy() returns.
copyValues(h, g) == Let(CreatureGenome_copy(h, g), LAMBDA copy : genes(copy.h, copy.r))

\* The genome each index of the child of the last crossover() was read from:
\* the slot of self below the crossover index, the slot of other from it on.
readFrom(i) == IF i < op.c THEN op.a ELSE op.b

C37_LastGeneFromOtherNeverAllSelf ==
    op.name = "crossover" =>
        /\ op.c \in 0 .. nodeCount(bench[op.a]) - 1
        /\ copiedFrom(heap, bench["child"], bench[op.b], nodeCount(bench["child"]) - 1)
        /\ op.c = 0 => genes(heap, bench["child"]) = copyValues(heap, bench[op.b])
        /\ \E i \in 0 .. nodeCount(bench["child"]) - 1 : readFrom(i) # op.a

(***************************************************************************)
(* C37, amended: for nodeCount >= 1 the crossover index is never           *)
(* nodeCount, so the child of self.crossover(other) always takes the gene  *)
(* at the last index from other, and with crossover index 0 the child is a *)
(* gene-for-gene copy of other; when other is a genome different from      *)
(* self, the child is never built from self's genes at every index.        *)
(***************************************************************************)
C37_LastGeneFromOther ==
    op.name = "crossover" =>
        /\ op.c \in 0 .. nodeCount(bench[op.a]) - 1
        /\ copiedFrom(heap, bench["child"], bench[op.b], nodeCount(bench["child"]) - 1)
        /\ op.c = 0 => genes(heap, bench["child"]) = copyValues(heap, bench[op.b])
        /\ op.a # op.b =>
              \E i \in 0 .. nodeCount(bench["child"]) - 1 : readFrom(i) # op.a

\* A crossover of two different genomes at the largest index: the child has
\* the first gene of self and the last gene of other, which differ.
C37_Witness ==
    /\ op.name = "crossover"
    /\ op.a # op.b
    /\ nodeCount(bench["child"]) >= 2
    /\ op.c = nodeCount(bench["child"]) - 1
    /\ copiedFrom(heap, bench["child"], bench[op.a], 0)
    /\ ~copiedFrom(heap, bench["child"], bench[op.b], 0)
    /\ ~copiedFrom(heap, bench["child"], bench[op.a], nodeCount(bench["child"]) - 1)

(***************************************************************************)
(* C38: an update(timestamp) call with                                     *)
(* timestamp - currEvaluationStartTime < evaluationTime leaves the         *)
(* population, the set of creatures, the generation counter,               *)
(* generationResults and currEvaluationStartTime unchanged and invokes no  *)
(* hook; only the muscles' toggle state and timeStep (incremented by       *)
(* exactly one) change.                                                    *)
(***************************************************************************)
\* The step is an update(timestamp) call that does not take the evaluate() branch.
updateWithinWindow ==
    /\ op'.name = "update"
    /\ op'.calls = op.calls + 1
    /\ ~generationEnded(ga, op'.timestamp)

\* A creature without the toggle state of its muscles (isExtended, the
\* current length and the time of the last toggle).
untoggled(creature) ==
    [creature EXCEPT
        !.muscles = [k \in 1 .. Len(creature.muscles) |->
                        [creature.muscles[k] EXCEPT !.isExtended = FALSE, !.length = 0]],
        !.muscleLastUpdates = [k \in 1 .. Len(creature.muscles) |-> 0]]

C38_UpdateWithinWindowFrame ==
    [][updateWithinWindow =>
          /\ heap' = heap
          /\ ga'.timeStep = ga.timeStep + 1
          /\ Len(ga'.creatures) = Len(ga.creatures)
          /\ \A i \in 1 .. Len(ga.creatures) :
                untoggled(ga'.creatures[i]) = untoggled(ga.creatures[i])
          /\ [ga' EXCEPT !.creatures = ga.creatures, !.timeStep = ga.timeStep] = ga
          /\ op'.posted = <<>>
          /\ ~op'.threw /\ ~op'.transition]_vars

\* An update() within the evaluation window in which a muscle toggled.
C38_Witness ==
    /\ op.name = "update"
    /\ ~op.transition /\ ~op.threw
    /\ op.timestamp - ga.currEvaluationStartTime < ga.evaluationTime
    /\ op.timestamp > ga.currEvaluationStartTime
    /\ ga.timeStep >= 2
    /\ \E i \in 1 .. Len(ga.creatures) : \E k \in 1 .. Len(ga.creatures[i].muscles) :
          /\ ga.creatures[i].muscles[k].isExtended
          /\ ga.creatures[i].muscleLastUpdates[k] = op.timestamp

(***************************************************************************)
(* C39: a muscle of a creature instantiated at timestamp T starts          *)
(* contracted and does not make its first toggle (extend) before timestamp *)
(* T + extendDelay, for creatures of every generation.                     *)
(* Does not hold of the code: the constructor records 0, not T, as the     *)
(* time of the last toggle, so the delay is measured from the start of the *)
(* engine.                                                                 *)
(***************************************************************************)
\* The timestamp at which the current creatures were instantiated: the one
\* nextGeneration() stored in currEvaluationStartTime.
instantiatedAt == ga.currEvaluationStartTime

C39_FirstToggleAfterExtendDelay ==
    /\ op.name = "reset" =>
          \A i \in 1 .. Len(ga.creatures) : \A k \in 1 .. Len(ga.creatures[i].muscles) :
              ~ga.creatures[i].muscles[k].isExtended
    /\ \A i \in 1 .. Len(ga.creatures) : \A k \in 1 .. Len(ga.creatures[i].muscles) :
          ga.creatures[i].muscles[k].isExtended =>
              ga.creatures[i].muscleLastUpdates[k]
                  >= instantiatedAt + ga.creatures[i].muscles[k].extendDelay

\* The GET_POPULATION replies a step of the worker has posted.
populationReplies(w) == posts(w.posted, "GET_POPULATION")

\* C40: in the worker every GET_POPULATION reply is posted by a main-loop
\* tick, at most one per tick, when START has been received and at least one
\* GET_POPULATION request has been received since the previous reply; the
\* reply leaves no request pending; and once QUIT has been received no step
\* posts a message, calls GA.update() or Engine.update(), or changes the
\* genetic algorithm or the engine's time.
C40_RepliesFollowRequests ==
    [][/\ populationReplies(op') <= 1
       /\ populationReplies(op') = 1 =>
            /\ op'.name = "tick"
            /\ op.startReceived
            /\ op.pending >= 1
            /\ op'.answered = op.pending
            /\ op'.pending = 0
            /\ ~op'.shouldSendPopulation
       /\ op.quitReceived =>
            /\ op'.posted = <<>>
            /\ op'.updates = 0
            /\ op'.steps = 0
            /\ op'.frames = op.frames
            /\ ga' = ga]_vars

\* A tick has posted one reply that answers two requests.
C40_Witness ==
    /\ op.name = "tick"
    /\ populationReplies(op) = 1
    /\ op.answered = 2
    /\ op.received = 3
    /\ ga.timeStep = 2
====
